---------------------------- MODULE Spec2Model ----------------------------
(***************************************************************************)
(* Verification model of xlte (navytux/xlte).                              *)
(*                                                                         *)
(*   part 1  amari.Conn      src/amari/__init__.py   specification SpecConn *)
(*   part 2  amari.xlog.xlog  src/amari/xlog.py  specifications SpecNorm   *)
(*           (normalization of the spec list) and SpecXlog (the logger)    *)
(*   part 3  amari.xlog.Reader and _ReverseLineReader  src/amari/xlog.py   *)
(*           specifications SpecReader, SpecFile and SpecRR                *)
(*   part 4  amari.drb._Sampler   src/amari/drb.py   specification         *)
(*           SpecSampler; its _BitSync alone: specification SpecBitSync    *)
(*   part 5  kpi.MeasurementLog and kpi.Calc   src/kpi.py   specifications *)
(*           SpecMLog and SpecCalc                                         *)
(*   part 6  amari.kpi.LogMeasure   src/amari/kpi.py   specifications      *)
(*           SpecLogMeasure and SpecLogMeasureStamped                      *)
(*   part 7  Tmain of amari.drb._x_stats_srv   src/amari/drb.py            *)
(*           specification SpecTmain                                       *)
(*   part 8  xlog and its tasks under cancellation   src/amari/xlog.py,    *)
(*           src/amari/drb.py   specifications SpecCancel and, with the    *)
(*           scheduling stated as fairness, SpecCancelLive                 *)
(*                                                                         *)
(* Every part has its own variables, its own initial predicate and its own *)
(* next-state relation; the variables of the other parts stay at their     *)
(* idle values while one part runs.                                        *)
(***************************************************************************)
EXTENDS Integers, Sequences, FiniteSets, TLC

VARIABLES
    \* ---- amari.Conn (src/amari/__init__.py)
    msgid_next,     \* conn._msgid_next
    rxtab,          \* conn._rxtab       [none, ent]: none <=> the table is None
    down_err,       \* conn._down_err    "nil" | why the connection was shut down
    down_once,      \* conn._down_once   TRUE once _shutdown has run
    ws_aborted,     \* conn._ws.abort() was called
    rxq,            \* rxq[r]            the chan(1) that req r created
    reqpc,          \* reqpc[r]          where req r is
    reqmsg,         \* reqmsg[r]         the query of req r
    reqid,          \* reqid[r]          message_id given to req r (0: none yet)
    reqres,         \* reqres[r]         how req r ended
    rpc,            \* where the receive task (_serve_recv) is
    rx,             \* the frame the receive task is working on
    rcur,           \* the (request_message, rxq) the receive task took from rxtab
    closepc,        \* closepc[c]        where the c-th close() call is
    handed,         \* history: message ids in the order they were handed out
    sent,           \* history: the message ids that were written to the socket
    down_frame,     \* history: the kind of frame at which the receive task shut the connection down
    atclose,        \* history: the reqs that were blocked when close() shut the connection down
    popped,         \* history: the message ids whose entry the receive task took from the table
    \* ---- amari.xlog.xlog (src/amari/xlog.py)
    caller_logspecv,    \* the list the caller passed to xlog()
    logspecv,           \* xlog's own logspecv (xl.logspecv)
    xpc,                \* where xlog() is
    rotating,           \* the writer is a _RotatingWriter (else a _PlainWriter)
    ctx_done,           \* ctx was cancelled
    now,                \* time.now(), in seconds
    tsync,              \* xl.tsync
    t0,                 \* _xlog1: t0
    tnextv,             \* _xlog1: tnextv
    imin,               \* _xlog1: imin (0: none picked)
    tmin,               \* _xlog1: tmin
    xerr,               \* the exception in flight: "none", "ConnError", "other", "ctx"
    wr,                 \* the writer's file number, and history of the output: the last
                        \* line, the number of lines since the last sync line, and
                        \* which kinds of lines were written one after the other
    fired,              \* history: the firings of the attach cycle, [i, t] each
    attached,           \* history: a `service attach` was emitted and no detach since
    tried,              \* history: amari.connect was called
    connects_cancelled, \* history: number of further connects made with ctx cancelled
    \* ---- xlog.Reader (src/amari/xlog.py) ----
    utc,                \* the Messages of the stream carry utc (eNB >= 2022-12-01)
    rpos,               \* where read() is: "idle" (not running), "ahead", "flush"
    lineno,             \* xr._lineno
    sync,               \* xr._sync: the line number of that sync event, 0 for None
    n_nosync,           \* xr._n_nosync
    emsgq,              \* xr._emsgq
    result,             \* history: what the last read() call returned or raised
    result_before,      \* history: the same of the read() call before it
    \* ---- xlog.Reader over a whole file, forward and reverse ----
    file,               \* the lines of the file
    fwd,                \* what Reader(file) gave, read() after read(), up to EOF
    rev,                \* the same for Reader(file, reverse=True)
    fdone,              \* which of the two readers have run
    \* ---- xlog._ReverseLineReader (src/amari/xlog.py) ----
    rdata,              \* the content of the underlying stream rr._r
    bufsize,            \* rr._bufsize
    rbuf,               \* rr._buf
    bufpos,             \* rr._bufpos
    rlines,             \* history: what the readline() calls returned
    \* ---- amari.drb._Sampler (src/amari/drb.py) ----
    use_bitsync,        \* s.use_bitsync
    use_ri,             \* s.use_ri
    radio,              \* what the cell of the reports does: its ri and xl_use_avg
    s_t,                \* s.t, in tti, counted from the initial report
    ues,                \* s.ues: ue_id -> [erab_flows, qci_flows, bitsync]
    qci_samples,        \* what the last add() or finish() returned: qci -> Samples
    serr,               \* an assert of the sampler failed
    ue_stats,           \* the last report given to the sampler
    utx,                \* history: ue_id -> the _Utx the last add() built from the report
    tx_after,           \* history: bytes the E-RABs transmitted after the initial report
    tx_out,             \* history: bytes of all the Samples returned so far
    \* ---- amari.drb._BitSync1 and _BitSync on their own (src/amari/drb.py) ----
    float_bits,         \* bits of mantissa that the floats keep; 0: the arithmetic is exact
    bs_multi,           \* the object is a _BitSync (else a _BitSync1)
    bsq,                \* the _BitSync1 or _BitSync
    bs_out,             \* what its next() and finish() calls gave so far
    bs_fed,             \* number of frames of the input S given to it
    bs_in,              \* history: the frames given to the _BitSync1 so far
    bs_tail,            \* number of (0,0) frames given to it after S
    out_s,              \* what S alone gave: next() for every frame of S, then finish()
    bs_phase,           \* "feed": S goes in; "tail": the (0,0) frames go in; "done"
    \* ---- kpi.MeasurementLog and kpi.Calc (src/kpi.py) ----
    mlog,               \* mlog._data: the Measurements of the log
    mlog_raised,        \* what the last append raised: "" for nothing
    calc,               \* the Calc made last: its _data, tau_lo and tau_hi
    calc_req,           \* history: the tau_lo and tau_hi that this Calc was asked for
    kpi_out,            \* what the last computation on calc yielded, returned or raised
    kpi_phase,          \* "log": the log is being filled; "calc": a Calc was made
    \* ---- amari.kpi.LogMeasure (src/amari/kpi.py) ----
    lm_estats,          \* logm._estats: None, a stats Message, an Event or a LogError
    lm_m,               \* logm._m: None or the Measurement of [stats_prev, stats)
    lm_m_next,          \* logm._m_next: None or the Measurement that starts at the last entry
    lm_log,             \* the entries that logm._rxlog.read() has given so far
    lm_ret,             \* what the calls of read() returned or raised so far
    lm_spread,          \* the timestamps of the log are spread out
    \* ---- amari.drb._x_stats_srv: Tmain around the sampler (src/amari/drb.py) ----
    tm_sum,             \* qci_Σ: the totals accounted since the last reply, qci -> _Σ
    tm_pc,              \* "select": at the select of the loop; "poll": after a reply
    tm_reply,           \* the qci_dict of the last reply sent, with the Samples it was due
    tm_since,           \* history: <<qci, Sample>> the sampler returned since the last reply
    \* ---- xlog with its tasks, for cancellation (src/amari/xlog.py, drb.py) ----
    cn_ctx,             \* ctx of xlog is cancelled
    cn_wg1,             \* a task of the WorkGroup of xlog1 failed: its ctx is cancelled
    cn_wg2,             \* a task of the WorkGroup of _x_stats_srv failed: its ctx is cancelled
    cn_err,             \* the first failure in the WorkGroup of xlog1: what wg.wait() raises
    cn_ret,             \* what xlog raised when it returned; "" while it runs
    pc_x,               \* where xlog / xlog1 is
    pc_s,               \* where the scheduler loop _xlog1 is
    pc_v,               \* where _XMsgServer.run / _x_stats_srv is
    pc_t,               \* where Tmain is
    pc_p,               \* where the pollers Trx_ue_get and Trx_stats are
    cn_retq,            \* the chan(1) uq and sq of rx_all that hold a report
    cn_got,             \* the reports rx_all has received
    cn_resp,            \* respch of req_ holds the reply
    cn_conns            \* the connections that are open

connVars == <<msgid_next, rxtab, down_err, down_once, ws_aborted, rxq, reqpc, reqmsg,
              reqid, reqres, rpc, rx, rcur, closepc, handed, sent, down_frame, atclose,
              popped>>

normVars == <<caller_logspecv, logspecv, xpc>>

xlVars == <<rotating, ctx_done, now, tsync, t0, tnextv, imin, tmin, xerr, wr, fired,
            attached, tried, connects_cancelled>>

readerVars == <<utc, rpos, lineno, sync, n_nosync, emsgq, result, result_before>>

fileVars == <<file, fwd, rev, fdone>>

rrVars == <<rdata, bufsize, rbuf, bufpos, rlines>>

samplerVars == <<use_bitsync, use_ri, radio, s_t, ues, qci_samples, serr, ue_stats, utx,
                 tx_after, tx_out>>

bitsyncVars == <<float_bits, bs_multi, bsq, bs_out, bs_fed, bs_in, bs_tail, out_s, bs_phase>>

kpiVars == <<mlog, mlog_raised, calc, calc_req, kpi_out, kpi_phase>>

lmVars == <<lm_estats, lm_m, lm_m_next, lm_log, lm_ret, lm_spread>>

tmVars == <<tm_sum, tm_pc, tm_reply, tm_since>>

cnVars == <<cn_ctx, cn_wg1, cn_wg2, cn_err, cn_ret, pc_x, pc_s, pc_v, pc_t, pc_p,
            cn_retq, cn_got, cn_resp, cn_conns>>

vars == <<connVars, normVars, xlVars, readerVars, fileVars, rrVars, samplerVars, bitsyncVars,
         kpiVars,
         lmVars,
         tmVars,
         cnVars>>

\* what an action of one part leaves alone: the variables of the other parts
ConnOnly == UNCHANGED <<normVars, xlVars, readerVars, fileVars, rrVars,
        samplerVars, bitsyncVars,
        kpiVars,
        lmVars,
        tmVars,
        cnVars>>
XlogOnly == UNCHANGED <<connVars, readerVars, fileVars, rrVars, samplerVars, bitsyncVars,
        kpiVars,
        lmVars,
        tmVars,
        cnVars>>
ReaderOnly == UNCHANGED <<connVars, normVars, xlVars, fileVars, rrVars,
        samplerVars, bitsyncVars,
        kpiVars,
        lmVars,
        tmVars,
        cnVars>>
FileOnly == UNCHANGED <<connVars, normVars, xlVars, readerVars, rrVars,
        samplerVars, bitsyncVars,
        kpiVars,
        lmVars,
        tmVars,
        cnVars>>
RROnly == UNCHANGED <<connVars, normVars, xlVars, readerVars, fileVars,
        samplerVars, bitsyncVars,
        kpiVars,
        lmVars,
        tmVars,
        cnVars>>
SamplerOnly == UNCHANGED <<connVars, normVars, xlVars, readerVars, fileVars, rrVars, bitsyncVars,
        kpiVars,
        lmVars,
        tmVars,
        cnVars>>
BitSyncOnly == UNCHANGED <<connVars, normVars, xlVars, readerVars, fileVars, rrVars, samplerVars,
        kpiVars,
        lmVars,
        tmVars,
        cnVars>>

\* the values the variables of a part keep while another part runs
ConnIdle ==
    /\ msgid_next = 0 /\ rxtab = <<>> /\ down_err = "" /\ down_once = FALSE
    /\ ws_aborted = FALSE /\ rxq = <<>> /\ reqpc = <<>> /\ reqmsg = <<>> /\ reqid = <<>>
    /\ reqres = <<>> /\ rpc = "" /\ rx = <<>> /\ rcur = <<>> /\ closepc = <<>>
    /\ handed = <<>> /\ sent = {} /\ down_frame = "" /\ atclose = {} /\ popped = {}
NormIdle ==
    /\ caller_logspecv = <<>> /\ logspecv = <<>> /\ xpc = ""
XlIdle ==
    /\ rotating = FALSE /\ ctx_done = FALSE /\ now = 0 /\ tsync = 0 /\ t0 = 0
    /\ tnextv = <<>> /\ imin = 0 /\ tmin = 0 /\ xerr = "none" /\ wr = <<>> /\ fired = <<>>
    /\ attached = FALSE /\ tried = FALSE /\ connects_cancelled = 0
ReaderIdle ==
    /\ utc = FALSE /\ rpos = "" /\ lineno = 0 /\ sync = 0 /\ n_nosync = 0 /\ emsgq = <<>>
    /\ result = <<>> /\ result_before = <<>>
FileIdle ==
    /\ file = <<>> /\ fwd = <<>> /\ rev = <<>> /\ fdone = {}
RRIdle ==
    /\ rdata = <<>> /\ bufsize = 0 /\ rbuf = <<>> /\ bufpos = 0 /\ rlines = <<>>
SamplerIdle ==
    /\ use_bitsync = FALSE /\ use_ri = FALSE /\ radio = <<>> /\ s_t = 0 /\ ues = <<>>
    /\ qci_samples = <<>> /\ serr = FALSE /\ ue_stats = <<>> /\ utx = <<>>
    /\ tx_after = 0 /\ tx_out = 0
BitSyncIdle ==
    /\ float_bits = 0 /\ bs_multi = FALSE /\ bsq = <<>> /\ bs_out = <<>> /\ bs_fed = 0
    /\ bs_tail = 0 /\ out_s = <<>> /\ bs_phase = "" /\ bs_in = <<>>
KpiIdle ==
    /\ mlog = <<>> /\ mlog_raised = "" /\ calc = <<>> /\ calc_req = <<>>
    /\ kpi_out = <<>> /\ kpi_phase = ""
LmIdle ==
    /\ lm_estats = <<>> /\ lm_m = <<>> /\ lm_m_next = <<>> /\ lm_log = <<>> /\ lm_ret = <<>>
    /\ lm_spread = FALSE
TmIdle == tm_sum = <<>> /\ tm_pc = "" /\ tm_reply = <<>> /\ tm_since = <<>>
CnIdle ==
    /\ cn_ctx = FALSE /\ cn_wg1 = FALSE /\ cn_wg2 = FALSE /\ cn_err = "" /\ cn_ret = ""
    /\ pc_x = "" /\ pc_s = "" /\ pc_v = "" /\ pc_t = "" /\ pc_p = <<>>
    /\ cn_retq = {} /\ cn_got = {} /\ cn_resp = FALSE /\ cn_conns = {}

-----------------------------------------------------------------------------
(***************************************************************************)
(* Part 1. amari.Conn: multiplexed request/reply over one WebSocket.       *)
(***************************************************************************)

\* bounds of the Conn model
MaxReq   == 2       \* number of req calls
MaxClose == 2       \* number of close calls

Reqs    == 1..MaxReq
Closers == 1..MaxClose
Msgs    == {"stats", "ue_get"}

\* the query of the r-th req call: the two queries alternate, so that requests
\* for both are in flight together
Query(r) == IF r % 2 = 1 THEN "stats" ELSE "ue_get"

\* what conn._ws.recv() can produce: a socket read timeout, an I/O error, an
\* empty frame, text that is no JSON, a JSON object without message_id, or a
\* reply. The peer is not trusted: a reply may carry any id and any name.
ReplyFrames == [kind: {"reply"}, id: 1..(MaxReq+1), msg: Msgs]
OtherFrames == [kind: {"timeout", "io", "eof", "badjson", "noid"}, id: {0}, msg: {""}]
Frames      == ReplyFrames \cup OtherFrames
NoFrame     == [kind |-> "none", id |-> 0, msg |-> ""]

NoEntry   == [id |-> 0, msg |-> "", r |-> 0]
NoRes     == [kind |-> "none", cause |-> "nil", id |-> 0, msg |-> ""]
RxtabNone == [none |-> TRUE, ent |-> {}]

ConnInit ==
    /\ msgid_next = 1
    /\ rxtab      = [none |-> FALSE, ent |-> {}]
    /\ down_err   = "nil"
    /\ down_once  = FALSE
    /\ ws_aborted = FALSE
    /\ rxq        = [r \in Reqs |-> [buf |-> <<>>, closed |-> FALSE]]
    /\ reqpc      = [r \in Reqs |-> "idle"]
    /\ reqmsg     = [r \in Reqs |-> ""]
    /\ reqid      = [r \in Reqs |-> 0]
    /\ reqres     = [r \in Reqs |-> NoRes]
    /\ rpc        = "recv"
    /\ rx         = NoFrame
    /\ rcur       = NoEntry
    /\ closepc    = [c \in Closers |-> "idle"]
    /\ handed     = <<>>
    /\ sent       = {}
    /\ down_frame = "none"
    /\ atclose    = {}
    /\ popped     = {}

\* a req that sits in select() and has nothing to wake it: its channel is
\* neither closed nor holds a reply
Blocked(r) == reqpc[r] = "wait" /\ rxq[r].buf = <<>> /\ ~rxq[r].closed

\* _shutdown: the body runs once (sync.Once); under conn._mu it records the
\* cause, sets the table to None and closes the channel of every entry that is
\* in the table; then it aborts the socket.
RxqAfterShutdown ==
    [r \in Reqs |-> IF \E e \in rxtab.ent : e.r = r
                    THEN [rxq[r] EXCEPT !.closed = TRUE]
                    ELSE rxq[r]]

Shutdown(err, frame) ==
    IF down_once
    THEN UNCHANGED <<down_err, down_once, rxtab, rxq, ws_aborted, down_frame>>
    ELSE /\ down_err'   = err
         /\ down_once'  = TRUE
         /\ rxtab'      = RxtabNone
         /\ rxq'        = RxqAfterShutdown
         /\ ws_aborted' = TRUE
         /\ down_frame' = frame

\* ---- req_ / _send_msg ----------------------------------------------------

\* _send_msg, the part under conn._mu: fail with the recorded cause when the
\* table is None, else take the next id and register (msg, rxq) under it.
\* (the req calls are numbered in the order in which they take conn._mu)
SendMsgLocked(r) ==
    /\ reqpc[r] = "idle"
    /\ \A q \in Reqs : q < r => reqpc[q] # "idle"
    /\ reqmsg' = [reqmsg EXCEPT ![r] = Query(r)]
    /\ IF rxtab.none
       THEN /\ reqpc'  = [reqpc EXCEPT ![r] = "done"]
            /\ reqres' = [reqres EXCEPT ![r] = [kind |-> "down", cause |-> down_err,
                                                id |-> 0, msg |-> ""]]
            /\ UNCHANGED <<msgid_next, rxtab, reqid, handed>>
       ELSE /\ msgid_next' = msgid_next + 1
            /\ reqid'  = [reqid EXCEPT ![r] = msgid_next]
            /\ rxtab'  = [rxtab EXCEPT !.ent = @ \cup {[id |-> msgid_next, msg |-> Query(r), r |-> r]}]
            /\ handed' = Append(handed, msgid_next)
            /\ reqpc'  = [reqpc EXCEPT ![r] = "send"]
            /\ UNCHANGED reqres
    /\ UNCHANGED <<down_err, down_once, ws_aborted, rxq, rpc, rx, rcur, closepc,
                   sent, down_frame, atclose, popped>>
    /\ ConnOnly

\* _send_msg, conn._ws.send(jmsg): the frame is written, or the write fails
\* (always so on an aborted socket) and req fails with ConnError("send").
SendMsgWrite(r) ==
    /\ reqpc[r] = "send"
    /\ \/ /\ ~ws_aborted
          /\ sent'  = sent \cup {reqid[r]}
          /\ reqpc' = [reqpc EXCEPT ![r] = "wait"]
          /\ UNCHANGED reqres
       \/ /\ reqpc'  = [reqpc EXCEPT ![r] = "done"]
          /\ reqres' = [reqres EXCEPT ![r] = [kind |-> "send", cause |-> "io",
                                              id |-> 0, msg |-> ""]]
          /\ UNCHANGED sent
    /\ UNCHANGED <<msgid_next, rxtab, down_err, down_once, ws_aborted, rxq, reqmsg, reqid,
                   rpc, rx, rcur, closepc, handed, down_frame, atclose, popped>>
    /\ ConnOnly

\* req_, select case 2 (rxq.recv_): a reply is taken from the channel, or the
\* channel is closed and req fails with ConnError("recv") from conn._down_err.
ReqRecv(r) ==
    /\ reqpc[r] = "wait"
    /\ rxq[r].buf # <<>> \/ rxq[r].closed
    /\ IF rxq[r].buf # <<>>
       THEN /\ reqres' = [reqres EXCEPT ![r] = [kind |-> "reply", cause |-> "nil",
                                                id |-> Head(rxq[r].buf).id,
                                                msg |-> Head(rxq[r].buf).msg]]
            /\ rxq'    = [rxq EXCEPT ![r].buf = Tail(@)]
       ELSE /\ reqres' = [reqres EXCEPT ![r] = [kind |-> "recv", cause |-> down_err,
                                                id |-> 0, msg |-> ""]]
            /\ UNCHANGED rxq
    /\ reqpc' = [reqpc EXCEPT ![r] = "done"]
    /\ UNCHANGED <<msgid_next, rxtab, down_err, down_once, ws_aborted, reqmsg, reqid,
                   rpc, rx, rcur, closepc, handed, sent, down_frame, atclose, popped>>
    /\ ConnOnly

\* req_, select case 1 (rxt.recv): the request's own timer fired.  req_ raises
\* and leaves its entry in the table.
ReqTimeout(r) ==
    /\ reqpc[r] = "wait"
    /\ reqpc'  = [reqpc EXCEPT ![r] = "done"]
    /\ reqres' = [reqres EXCEPT ![r] = [kind |-> "timeout", cause |-> "nil",
                                        id |-> 0, msg |-> ""]]
    /\ UNCHANGED <<msgid_next, rxtab, down_err, down_once, ws_aborted, rxq, reqmsg, reqid,
                   rpc, rx, rcur, closepc, handed, sent, down_frame, atclose, popped>>
    /\ ConnOnly

\* req_, select case 0 (ctx.done().recv): the caller's ctx was cancelled.
ReqCancel(r) ==
    /\ reqpc[r] = "wait"
    /\ reqpc'  = [reqpc EXCEPT ![r] = "done"]
    /\ reqres' = [reqres EXCEPT ![r] = [kind |-> "ctx", cause |-> "nil",
                                        id |-> 0, msg |-> ""]]
    /\ UNCHANGED <<msgid_next, rxtab, down_err, down_once, ws_aborted, rxq, reqmsg, reqid,
                   rpc, rx, rcur, closepc, handed, sent, down_frame, atclose, popped>>
    /\ ConnOnly

\* ---- _serve_recv / __serve_recv --------------------------------------------

\* (mutant of RecvError: the socket's read timeout is not caught)
RecvError_TimeoutRaises(kind) == IF kind = "timeout" THEN "io" ELSE kind

\* what __serve_recv raises for a frame that is no reply ("nil": it goes on)
RecvError(kind) ==
    CASE kind = "timeout" -> "nil"          \* WebSocketTimeoutException: continue
      [] kind = "io"      -> "io"           \* any other exception of _ws.recv()
      [] kind = "eof"     -> "eof"          \* ConnError("connection closed by peer")
      [] kind = "badjson" -> "badjson"      \* json.loads raises
      [] kind = "noid"    -> "noid"         \* NotImplementedError("TODO support events")
      [] OTHER            -> "nil"

\* (mutant of RxtabEntry: replies are taken to come in the order of the
\* requests, the oldest entry is popped whatever the id of the reply)
RxtabEntry_Oldest(id) == CHOOSE e \in rxtab.ent : \A f \in rxtab.ent : e.id <= f.id

\* the entry that the receive task takes from the table for message_id id
RxtabEntry(id) == CHOOSE e \in rxtab.ent : e.id = id

\* conn._ws.recv() up to rx.pop('message_id').  On an aborted socket recv
\* raises; _serve_recv then calls _shutdown (which has run already) and ends.
RecvFrame ==
    /\ rpc = "recv"
    /\ IF ws_aborted
       THEN /\ rpc' = "exit"
            /\ Shutdown("io", "aborted")
            /\ UNCHANGED rx
       ELSE \E f \in Frames :
            IF f.kind = "reply"
            THEN /\ rx'  = f
                 /\ rpc' = "lookup"
                 /\ UNCHANGED <<down_err, down_once, rxtab, rxq, ws_aborted, down_frame>>
            ELSE IF RecvError(f.kind) = "nil"
            THEN UNCHANGED <<rx, rpc, down_err, down_once, rxtab, rxq, ws_aborted, down_frame>>
            ELSE /\ rpc' = "exit"
                 /\ Shutdown(RecvError(f.kind), f.kind)
                 /\ UNCHANGED rx
    /\ UNCHANGED <<msgid_next, reqpc, reqmsg, reqid, reqres, rcur, closepc, handed, sent,
                   atclose, popped>>
    /\ ConnOnly

\* the part of __serve_recv under conn._mu: the table is None, the id is
\* unknown, or the entry is popped.
RecvLookup ==
    /\ rpc = "lookup"
    /\ IF rxtab.none
       THEN /\ rpc' = "exit"
            /\ Shutdown(down_err, "reply")
            /\ UNCHANGED <<rcur, popped>>
       ELSE IF ~ \E e \in rxtab.ent : e.id = rx.id
       THEN /\ rpc' = "exit"
            /\ Shutdown("unexpected", "reply")
            /\ UNCHANGED <<rcur, popped>>
       ELSE /\ rcur'   = RxtabEntry(rx.id)
            /\ rxtab'  = [rxtab EXCEPT !.ent = @ \ {RxtabEntry(rx.id)}]
            /\ popped' = popped \cup {RxtabEntry(rx.id).id}
            /\ rpc'    = "deliver"
            /\ UNCHANGED <<down_err, down_once, rxq, ws_aborted, down_frame>>
    /\ UNCHANGED <<msgid_next, reqpc, reqmsg, reqid, reqres, rx, closepc, handed, sent,
                   atclose>>
    /\ ConnOnly

\* the name check and rxq.send((rx, rx_raw)); a send blocks while the
\* channel's one slot is taken.
RecvDeliver ==
    /\ rpc = "deliver"
    /\ IF rx.msg # rcur.msg
       THEN /\ rpc' = "exit"
            /\ Shutdown("mismatch", "reply")
       ELSE /\ Len(rxq[rcur.r].buf) < 1
            /\ rxq' = [rxq EXCEPT ![rcur.r].buf = Append(@, rx)]
            /\ rpc' = "recv"
            /\ UNCHANGED <<down_err, down_once, rxtab, ws_aborted, down_frame>>
    /\ rx'   = NoFrame
    /\ rcur' = NoEntry
    /\ UNCHANGED <<msgid_next, reqpc, reqmsg, reqid, reqres, closepc, handed,
                   sent, atclose, popped>>
    /\ ConnOnly

\* ---- close ---------------------------------------------------------------

\* close, first statement: conn._shutdown(ConnClosedError(...))
\* (the close calls are numbered in the order in which they are made)
CloseShutdown(c) ==
    /\ closepc[c] = "idle"
    /\ \A d \in Closers : d < c => closepc[d] # "idle"
    /\ closepc' = [closepc EXCEPT ![c] = "wait"]
    /\ atclose' = IF down_once THEN atclose ELSE {r \in Reqs : Blocked(r)}
    /\ Shutdown("ConnClosed", "close")
    /\ UNCHANGED <<msgid_next, reqpc, reqmsg, reqid, reqres, rpc, rx, rcur, handed, sent,
                   popped>>
    /\ ConnOnly

\* close, the rest: conn._rx_wg.wait() returns once the receive task has
\* ended; close then returns, or raises ConnError("close") from the cause when
\* the cause is no ConnClosedError.
CloseWait(c) ==
    /\ closepc[c] = "wait"
    /\ rpc = "exit"
    /\ closepc' = [closepc EXCEPT ![c] = IF down_err = "ConnClosed" THEN "returned"
                                                                    ELSE "raised"]
    /\ UNCHANGED <<msgid_next, rxtab, down_err, down_once, ws_aborted, rxq, reqpc, reqmsg,
                   reqid, reqres, rpc, rx, rcur, handed, sent, down_frame, atclose, popped>>
    /\ ConnOnly

ConnNext ==
    \/ \E r \in Reqs : SendMsgLocked(r)
    \/ \E r \in Reqs : SendMsgWrite(r)
    \/ \E r \in Reqs : ReqRecv(r)
    \/ \E r \in Reqs : ReqTimeout(r)
    \/ \E r \in Reqs : ReqCancel(r)
    \/ RecvFrame
    \/ RecvLookup
    \/ RecvDeliver
    \/ \E c \in Closers : CloseShutdown(c)
    \/ \E c \in Closers : CloseWait(c)

SpecConnInit == ConnInit /\ NormIdle /\ XlIdle /\ ReaderIdle /\ FileIdle /\ RRIdle /\ SamplerIdle
    /\ BitSyncIdle
    /\ KpiIdle
    /\ LmIdle
    /\ TmIdle
    /\ CnIdle

SpecConn == SpecConnInit /\ [][ConnNext]_vars

-----------------------------------------------------------------------------
(***************************************************************************)
(* Claims about amari.Conn, checked under SpecConn.                        *)
(***************************************************************************)

RangeOf(q) == {q[i] : i \in 1..Len(q)}
GaveUp(r)  == reqres[r].kind \in {"timeout", "ctx"}

\* C1: message ids are handed out strictly increasing and never reused, a
\* request is written to the socket with the id it was handed, and a reply
\* frame with message_id N reaches only the channel that was registered for
\* the request with id N.
C1_IdsIncreaseRepliesRouted ==
    /\ \A i, j \in 1..Len(handed) : i < j => handed[i] < handed[j]
    /\ \A i \in 1..Len(handed) : handed[i] < msgid_next
    /\ sent \subseteq RangeOf(handed)
    /\ \A r \in Reqs : reqid[r] # 0 =>
            Cardinality({i \in 1..Len(handed) : handed[i] = reqid[r]}) = 1
    /\ \A r, q \in Reqs : (r # q /\ reqid[r] # 0) => reqid[r] # reqid[q]
    /\ rpc = "deliver" => (rcur.id = rx.id /\ reqid[rcur.r] = rx.id)
    /\ \A r \in Reqs : \A k \in 1..Len(rxq[r].buf) : rxq[r].buf[k].id = reqid[r]
    /\ \A r \in Reqs : reqres[r].kind = "reply" => reqres[r].id = reqid[r]

\* two requests are in flight, the reply to the second one came first and was
\* delivered to it, and the first one is still waiting for its own
C1_Witness ==
    /\ reqpc[1] = "wait" /\ rxq[1].buf = <<>>
    /\ reqres[2].kind = "reply" /\ reqres[2].id = 2
    /\ down_err = "nil"

\* C2: when the receive task ends on an error of its own (I/O error, EOF,
\* malformed JSON, reply with an unknown id or with another name than
\* requested) that error is the recorded cause, and no req is left blocked:
\* every req waiting for a reply is woken with that cause.
C2_ReceiverErrorWakesEveryWaiter ==
    (rpc = "exit" /\ down_frame \in {"io", "eof", "badjson", "noid", "reply"}) =>
        /\ down_err \in {"io", "eof", "badjson", "noid", "unexpected", "mismatch"}
        /\ \A r \in Reqs : ~Blocked(r)
        /\ \A r \in Reqs : reqres[r].kind = "recv" => reqres[r].cause = down_err

\* C3: close() wakes every in-flight request: once a close() call has
\* returned, the receive task has ended and no req that was blocked when
\* close() shut the connection down is still blocked.
C3_CloseWakesEveryBlockedReq ==
    \A c \in Closers : closepc[c] = "returned" =>
        /\ rpc = "exit"
        /\ \A r \in atclose : ~Blocked(r)

\* C4: timeouts are per request and do not harm the connection: the socket's
\* read timeout never shuts the connection down; a req that gave up leaves the
\* connection up, so that a reply arriving late is never an "unexpected
\* reply"; the receive task never finds the channel it delivers to full or
\* closed; a req never ends with a timeout as the connection's cause.
C4_TimeoutsDoNotHarmConn ==
    /\ down_frame # "timeout"
    /\ down_err = "unexpected" => ~(rx.id \in RangeOf(handed) /\ rx.id \notin popped)
    /\ rpc = "deliver" => (rxq[rcur.r].buf = <<>> /\ ~rxq[rcur.r].closed)
    /\ \A r \in Reqs : (GaveUp(r) /\ ~rxtab.none) =>
            \/ \E e \in rxtab.ent : e.r = r
            \/ reqid[r] \in popped

\* req 1 gave up on its timer, its reply came late and sits in its channel,
\* the connection is still up and req 2 got its reply
C4_Witness ==
    /\ reqres[1].kind = "timeout"
    /\ rxq[1].buf # <<>>
    /\ down_err = "nil" /\ rpc = "recv"
    /\ reqres[2].kind = "reply"

-----------------------------------------------------------------------------
(***************************************************************************)
(* Part 2a. xlog(): normalization of the spec list and the LOS_window      *)
(* check.  A LogSpec is [query, period]; periods are whole seconds (the    *)
(* source holds them as floats).  The flags of a spec (optv) play no part  *)
(* in what is modelled here.                                               *)
(***************************************************************************)

\* LOS_window is 1000 in the source (src/amari/xlog.py:55).  The model runs
\* with a scaled-down window: everything below is written in terms of
\* LOS_window, and spec lists and streams are sized to it.
LOS_window == 12

\* bounds of the normalization model: the caller's lists
MaxSpecs  == 2
MaxPeriod == 3

Queries   == {"meta.sync", "config_get", "stats", "ue_get"}
LogSpec(query, period) == [query |-> query, period |-> period]

MaxOf(S)  == CHOOSE x \in S : \A y \in S : y <= x
Periods(v) == {v[i].period : i \in 1..Len(v)}

\* pmax = 1; for l in logspecv: pmax = max(pmax, l.period)
Pmax(v) == MaxOf({1} \cup Periods(v))

\* isync / lsync / lconfig_get of the first loop: the last meta.sync and
\* whether a config_get is there (index 0: none; indices count from 1 here)
SyncIndex(v)   == IF \E i \in 1..Len(v) : v[i].query = "meta.sync"
                  THEN MaxOf({i \in 1..Len(v) : v[i].query = "meta.sync"})
                  ELSE 0
HasConfigGet(v) == \E i \in 1..Len(v) : v[i].query = "config_get"

\* list.insert(i, x), i counted from 0 as in the source
Insert(v, i, x) == SubSeq(v, 1, i) \o <<x>> \o SubSeq(v, i+1, Len(v))

\* (mutant of DefaultSync: the default period is the longest period itself)
DefaultSync_NoFactor(v) == LogSpec("meta.sync", Pmax(v))

\* lsync = LogSpec("meta.sync", [], pmax*10)
DefaultSync(v) == LogSpec("meta.sync", Pmax(v) * 10)

\* lsync after the first loop and the insertion
LSync(v) == IF SyncIndex(v) = 0 THEN DefaultSync(v) ELSE v[SyncIndex(v)]

\* the list after both insertions
Normalized(v) ==
    LET v1    == IF SyncIndex(v) = 0 THEN Insert(v, 0, LSync(v)) ELSE v
        isync == IF SyncIndex(v) = 0 THEN 0 ELSE SyncIndex(v) - 1
    IN  IF HasConfigGet(v)
        THEN v1
        ELSE Insert(v1, isync + 1, LogSpec("config_get", LSync(v).period))

\* ns = sum of lsync.period / l.period, and the test ns > LOS_window: with D
\* the product of all periods, ns > LOS_window  <=>  sum P*(D/p) > LOS_window*D
RECURSIVE ProdPeriods(_)
ProdPeriods(v) == IF v = <<>> THEN 1 ELSE Head(v).period * ProdPeriods(Tail(v))

RECURSIVE SumScaled(_, _, _)
SumScaled(v, P, D) == IF v = <<>> THEN 0
                      ELSE P * (D \div Head(v).period) + SumScaled(Tail(v), P, D)

TooManyEntries(nv, P) ==
    SumScaled(nv, P, ProdPeriods(nv)) > LOS_window * ProdPeriods(nv)

\* the lists a caller may pass
RECURSIVE ListsUpTo(_)
ListsUpTo(n) == IF n = 0 THEN {<<>>}
                ELSE ListsUpTo(n-1) \cup
                     {Append(v, LogSpec(q, p)) : v \in {w \in ListsUpTo(n-1) : Len(w) = n-1},
                                                 q \in Queries, p \in 1..MaxPeriod}

NormInit ==
    /\ caller_logspecv \in ListsUpTo(MaxSpecs)
    /\ logspecv = <<>>
    /\ xpc = "norm"

\* xlog(), from its first line to the LOS_window check: the caller's list is
\* copied (logspecv[:]) before anything is inserted
XNormalize ==
    /\ xpc = "norm"
    /\ logspecv' = Normalized(caller_logspecv)
    /\ xpc' = IF TooManyEntries(Normalized(caller_logspecv), LSync(caller_logspecv).period)
              THEN "rejected" ELSE "start"
    /\ UNCHANGED caller_logspecv
    /\ UNCHANGED xlVars
    /\ XlogOnly

NormNext == XNormalize

SpecNormInit == NormInit /\ XlIdle /\ ConnIdle /\ ReaderIdle /\ FileIdle /\ RRIdle /\ SamplerIdle
    /\ BitSyncIdle
    /\ KpiIdle
    /\ LmIdle
    /\ TmIdle
    /\ CnIdle

SpecNorm == SpecNormInit /\ [][NormNext]_vars

-----------------------------------------------------------------------------
(***************************************************************************)
(* Claims about the normalization, checked under SpecNorm.                 *)
(***************************************************************************)

IsSync(l)   == l.query = "meta.sync"
IsConfig(l) == l.query = "config_get"
GaveSync    == \E i \in 1..Len(caller_logspecv) : IsSync(caller_logspecv[i])
GaveConfig  == \E i \in 1..Len(caller_logspecv) : IsConfig(caller_logspecv[i])

\* C9 (as claimed): the normalized list holds one meta.sync spec and its
\* period is the longest among all specs.
C9_OneSyncWithLongestPeriod ==
    xpc # "norm" =>
        /\ Cardinality({i \in 1..Len(logspecv) : IsSync(logspecv[i])}) = 1
        /\ \A i, j \in 1..Len(logspecv) :
                IsSync(logspecv[i]) => logspecv[j].period <= logspecv[i].period

\* C9 (amended): xlog normalizes a copy of the spec list.  When the caller
\* gave no meta.sync, one comes first with period 10*max(1, longest given
\* period), which is then the longest of all; a meta.sync given by the caller
\* is kept with the caller's period, whatever the other periods are.  When the
\* caller gave no config_get, one is inserted right after the (last) meta.sync
\* spec with that spec's period.  The caller's specs are kept, in their order.
C9_NormalizedList ==
    xpc # "norm" =>
        LET c == caller_logspecv
            n == logspecv
            k == CHOOSE i \in 0..Len(c) :
                    /\ i # 0 => IsSync(c[i])
                    /\ \A j \in (i+1)..Len(c) : ~IsSync(c[j])
                    /\ i = 0 => ~GaveSync
        IN  /\ GaveSync /\ GaveConfig => n = c
            /\ ~GaveSync =>
                 /\ IsSync(n[1])
                 /\ \A p \in {1} \cup {c[i].period : i \in 1..Len(c)} : n[1].period >= 10 * p
                 /\ n[1].period \in {10 * p : p \in {1} \cup {c[i].period : i \in 1..Len(c)}}
                 /\ \A i \in 1..Len(n) : n[i].period <= n[1].period
                 /\ GaveConfig => Tail(n) = c
                 /\ ~GaveConfig => /\ n[2] = [query |-> "config_get", period |-> n[1].period]
                                   /\ SubSeq(n, 3, Len(n)) = c
            /\ GaveSync /\ ~GaveConfig =>
                 /\ SubSeq(n, 1, k) = SubSeq(c, 1, k)
                 /\ n[k+1] = [query |-> "config_get", period |-> c[k].period]
                 /\ SubSeq(n, k+2, Len(n)) = SubSeq(c, k+1, Len(c))
            /\ \E i \in 1..Len(n) : IsSync(n[i])
            /\ \E i \in 1..Len(n) : IsConfig(n[i])

\* the caller gave a meta.sync that is not the longest period and no
\* config_get: the sync spec is kept as given, config_get follows it
C9_Witness ==
    /\ xpc # "norm"
    /\ caller_logspecv = <<LogSpec("meta.sync", 1), LogSpec("stats", 3)>>
    /\ logspecv = <<LogSpec("meta.sync", 1), LogSpec("config_get", 1), LogSpec("stats", 3)>>


-----------------------------------------------------------------------------
(***************************************************************************)
(* Part 2b. xlog(): the logger proper.  After normalization it emits the   *)
(* start sync and runs xlog1 (one attach / log, log, log ... / detach      *)
(* cycle) in a loop, waiting before each new connect; ctx cancellation     *)
(* ends it with the stop sync.  Time is in whole seconds and passes only   *)
(* where the code sleeps.  amari.connect either gives a connection or      *)
(* raises ConnError (src/amari/__init__.py:57-68 wraps every failure).     *)
(* A line of the output is [kind, name, flags, state, file].               *)
(***************************************************************************)

\* bounds of the logger model: the clock, and the number of rotations
MaxTime   == 14
MaxRotate == 2

\* δt_reconnect = min(3, lsync.period): the 3
ReconnectDelay == 3

Min2(a, b) == IF a < b THEN a ELSE b

NoLine == [kind |-> "none", name |-> "", flags |-> "", state |-> "", file |-> 0]

\* (mutant of SyncLine: every sync says attached)
SyncLine_Attached(state, reason, flags) ==
    [kind |-> "sync", name |-> reason, flags |-> flags, state |-> "attached"]

\* the pieces jemit / emit write; "rotate" stands for w.rotate() between lines
SyncLine(state, reason, flags) ==
    [kind |-> "sync", name |-> reason, flags |-> flags, state |-> state]
EventLine(event, reason) ==
    [kind |-> "event", name |-> event, flags |-> "", state |-> reason]
MessageLine(query) ==
    [kind |-> "message", name |-> query, flags |-> "", state |-> ""]
Rotate == [kind |-> "rotate"]

\* history: where the log is once the line it is read after a log that was at
\* st: "empty", "detached" (after the start sync or a `service detach`),
\* "attached" (after a `service attach`), "stopped" (after the stop sync);
\* "bad" if the line does not belong there
LogAfter(st, it) ==
    IF it.kind = "sync" /\ it.name = "start"
        THEN IF st = "empty" /\ it.state = "detached" THEN "detached"
             ELSE IF st = "detached" /\ it.flags = "post-logrotate" THEN "detached" ELSE "bad"
    ELSE IF it.kind = "sync" /\ it.name = "stop"
        THEN IF st = "detached" /\ it.state = "detached" THEN "stopped"
             ELSE IF st = "stopped" /\ it.flags = "post-logrotate" THEN "stopped" ELSE "bad"
    ELSE IF it.kind = "sync"
        THEN IF st \in {"attached", "detached"} /\ it.state \in {st, "detached"} THEN st
             ELSE "bad"
    ELSE IF it.kind = "event" /\ it.name = "service attach"
        THEN IF st = "detached" THEN "attached" ELSE "bad"
    ELSE IF it.kind = "event" /\ it.name = "service detach"
        THEN IF st = "attached" THEN "detached" ELSE "bad"
    ELSE IF it.kind = "message"
        THEN IF st = "attached" THEN "attached" ELSE "bad"
    ELSE IF st \in {"attached", "detached"} THEN st ELSE "bad"

\* w.writeline / w.rotate, one after another
RECURSIVE Written(_, _)
Written(o, items) ==
    IF items = <<>> THEN o
    ELSE LET it == Head(items)
         IN  Written(IF it.kind = "rotate"
                     THEN [o EXCEPT !.file = @ + 1]
                     ELSE [file   |-> o.file,
                           last   |-> [kind |-> it.kind, name |-> it.name, flags |-> it.flags,
                                       state |-> it.state, file |-> o.file],
                           nsince |-> IF it.kind = "sync" THEN 0 ELSE o.nsince + 1,
                           seen   |-> LogAfter(o.seen, it),
                           pairs  |-> IF o.last.kind = "none" THEN o.pairs
                                      ELSE o.pairs \cup
                                           {[akind |-> o.last.kind, aflags |-> o.last.flags,
                                             bkind |-> it.kind, bflags |-> it.flags,
                                             files |-> o.file - o.last.file]}],
                     Tail(items))

\* w.need_rotate(): False for the plain writer; for the rotating one it is
\* for the size of the file or the clock to say
NeedRotate == IF rotating /\ wr.file < MaxRotate THEN BOOLEAN ELSE {FALSE}

\* (mutant of JemitSync: the file is rotated before the sync is written)
JemitSync_RotateFirst(state, reason, rotate) ==
    IF rotate
    THEN <<Rotate, SyncLine(state, reason, "pre-logrotate"),
           SyncLine(state, reason, "post-logrotate")>>
    ELSE <<SyncLine(state, reason, "")>>

\* jemit_sync
JemitSync(state, reason, rotate) ==
    IF rotate
    THEN <<SyncLine(state, reason, "pre-logrotate"), Rotate,
           SyncLine(state, reason, "post-logrotate")>>
    ELSE <<SyncLine(state, reason, "")>>

\* xl.δt_sync = lsync.period
SyncPeriod == LSync(caller_logspecv).period

\* the lists xlog is run with
XlogLists ==
    { <<LogSpec("stats", 4), LogSpec("meta.sync", 40)>>,
      <<LogSpec("stats", 2), LogSpec("meta.sync", 6)>>,
      <<LogSpec("meta.sync", 3), LogSpec("stats", 2), LogSpec("ue_get", 3)>>,
      <<LogSpec("stats", 1), LogSpec("ue_get", 1)>> }

XlogInit ==
    /\ caller_logspecv \in XlogLists
    /\ logspecv = <<>>
    /\ xpc = "norm"
    /\ rotating \in BOOLEAN
    /\ ctx_done = FALSE
    /\ now = 0 /\ tsync = 0 /\ t0 = 0
    /\ tnextv = <<>> /\ imin = 0 /\ tmin = 0
    /\ xerr = "none"
    /\ wr = [file |-> 0, last |-> NoLine, nsince |-> 0, seen |-> "empty", pairs |-> {}]
    /\ fired = <<>>
    /\ attached = FALSE
    /\ tried = FALSE
    /\ connects_cancelled = 0

\* ctx is cancelled by whoever runs xlog
Cancel ==
    /\ xpc \in {"start", "xlog1", "sched", "sleep", "fire", "detach", "except", "wait"}
    /\ ~ctx_done
    /\ ctx_done' = TRUE
    /\ UNCHANGED <<normVars, rotating, now, tsync, t0, tnextv, imin, tmin, xerr, wr, fired,
                   attached, tried, connects_cancelled>>
    /\ XlogOnly

\* xl.jemit_sync("detached", "start", {}), and the stop sync is deferred
XStart ==
    /\ xpc = "start"
    /\ \E rotate \in NeedRotate :
          wr' = Written(wr, JemitSync("detached", "start", rotate))
    /\ tsync' = now
    /\ xpc' = "xlog1"
    /\ UNCHANGED <<caller_logspecv, logspecv, rotating, ctx_done, now, t0, tnextv, imin, tmin,
                   xerr, fired, attached, tried, connects_cancelled>>
    /\ XlogOnly

\* xlog1 up to the start of _xlog1: the periodic sync of the detached state,
\* amari.connect (which does not look at ctx), then either `service connect
\* failure` and return, or `service attach` and t0, tnextv of _xlog1
XLog1Connect ==
    /\ xpc = "xlog1"
    /\ LET due == now - tsync >= SyncPeriod
       IN  \E rotate \in (IF due THEN NeedRotate ELSE {FALSE}), ok \in BOOLEAN :
              /\ wr' = Written(wr,
                          (IF due THEN JemitSync("detached", "periodic", rotate) ELSE <<>>)
                          \o (IF ok THEN <<EventLine("service attach", "")>>
                                    ELSE <<EventLine("service connect failure", "ConnError")>>))
              /\ tsync' = IF due THEN now ELSE tsync
              /\ IF ok
                 THEN /\ t0' = now
                      /\ tnextv' = [i \in 1..Len(logspecv) |-> 0]
                      /\ fired' = <<>>
                      /\ attached' = TRUE
                      /\ xpc' = "sched"
                 ELSE /\ UNCHANGED <<t0, tnextv, fired, attached>>
                      /\ xpc' = "wait"
    /\ tried' = TRUE
    /\ connects_cancelled' = IF tried /\ ctx_done THEN connects_cancelled + 1
                                                  ELSE connects_cancelled
    /\ xerr' = "none"
    /\ UNCHANGED <<caller_logspecv, logspecv, rotating, ctx_done, now, imin, tmin>>
    /\ XlogOnly

\* (mutant of PickImin: `t <= tmin` in the search, the last of the soonest)
PickImin_LastOfSoonest(tv) ==
    CHOOSE i \in 1..Len(tv) : /\ \A j \in 1..Len(tv) : tv[i] <= tv[j]
                              /\ \A j \in (i+1)..Len(tv) : tv[j] > tv[i]

\* the linear search of _xlog1: `t < tmin` keeps the first of the soonest
PickImin(tv) ==
    CHOOSE i \in 1..Len(tv) : /\ \A j \in 1..Len(tv) : tv[i] <= tv[j]
                              /\ \A j \in 1..(i-1) : tv[j] > tv[i]

\* _xlog1, top of the loop: pick, advance tnextv[imin], and sleep if
\* tarm is ahead of the clock
XPick ==
    /\ xpc = "sched"
    /\ LET i == PickImin(tnextv)
       IN  /\ imin' = i
           /\ tmin' = tnextv[i]
           /\ tnextv' = [tnextv EXCEPT ![i] = @ + logspecv[i].period]
           /\ xpc' = IF t0 + tnextv[i] - now > 0 THEN "sleep" ELSE "fire"
    /\ UNCHANGED <<caller_logspecv, logspecv, rotating, ctx_done, now, tsync, t0, xerr, wr,
                   fired, attached, tried, connects_cancelled>>
    /\ XlogOnly

\* select: the timer fires first
XSleepDone ==
    /\ xpc = "sleep"
    /\ ~ctx_done
    /\ t0 + tmin <= MaxTime
    /\ now' = t0 + tmin
    /\ xpc' = "fire"
    /\ UNCHANGED <<caller_logspecv, logspecv, rotating, ctx_done, tsync, t0, tnextv, imin, tmin,
                   xerr, wr, fired, attached, tried, connects_cancelled>>
    /\ XlogOnly

\* select: ctx is done first: raise ctx.err()
XSleepCancel ==
    /\ xpc = "sleep"
    /\ ctx_done
    /\ xerr' = "ctx"
    /\ xpc' = "detach"
    /\ UNCHANGED <<caller_logspecv, logspecv, rotating, ctx_done, now, tsync, t0, tnextv, imin,
                   tmin, wr, fired, attached, tried, connects_cancelled>>
    /\ XlogOnly

\* what a query may end with: the reply; ConnError (the connection is down
\* or the send failed); another exception (the req_ timeout, a reply
\* without "time"); ctx.err() if ctx is done
ReqOutcomes == {"reply", "ConnError", "other"} \cup (IF ctx_done THEN {"ctx"} ELSE {})

\* _xlog1, rest of the loop body: the sync is emitted, or the query is made
\* and its reply emitted
XFire ==
    /\ xpc = "fire"
    /\ fired' = Append(fired, [i |-> imin, t |-> tmin])
    /\ IF logspecv[imin].query = "meta.sync"
       THEN /\ \E rotate \in NeedRotate :
                  wr' = Written(wr, JemitSync("attached", "periodic", rotate))
            /\ tsync' = now
            /\ xpc' = "sched"
            /\ UNCHANGED xerr
       ELSE \E res \in ReqOutcomes :
               IF res = "reply"
               THEN /\ wr' = Written(wr, <<MessageLine(logspecv[imin].query)>>)
                    /\ xpc' = "sched"
                    /\ UNCHANGED <<xerr, tsync>>
               ELSE /\ xerr' = res
                    /\ xpc' = "detach"
                    /\ UNCHANGED <<wr, tsync>>
    /\ UNCHANGED <<caller_logspecv, logspecv, rotating, ctx_done, now, t0, tnextv, imin, tmin,
                   attached, tried, connects_cancelled>>
    /\ XlogOnly

\* xlog1, the deferred calls: wg.wait() raises what _xlog1 failed with,
\* `service detach` is emitted with it, then conn.close(), which raises
\* ConnError itself if the receive task had brought the connection down
XDetach ==
    /\ xpc = "detach"
    /\ wr' = Written(wr, <<EventLine("service detach", xerr)>>)
    /\ attached' = FALSE
    /\ \E close_raises \in BOOLEAN :
          xerr' = IF close_raises THEN "ConnError" ELSE xerr
    /\ xpc' = "except"
    /\ UNCHANGED <<caller_logspecv, logspecv, rotating, ctx_done, now, tsync, t0, tnextv, imin,
                   tmin, fired, tried, connects_cancelled>>
    /\ XlogOnly

\* xlog, the except clause around xlog1
XExcept ==
    /\ xpc = "except"
    /\ IF ctx_done
       THEN /\ xpc' = "stop"
            /\ UNCHANGED wr
       ELSE /\ xpc' = "wait"
            /\ wr' = IF xerr # "ConnError"
                     THEN Written(wr, <<EventLine("xlog failure", xerr)>>)
                     ELSE wr
    /\ UNCHANGED <<caller_logspecv, logspecv, rotating, ctx_done, now, tsync, t0, tnextv, imin,
                   tmin, xerr, fired, attached, tried, connects_cancelled>>
    /\ XlogOnly

\* select after xlog1: the timer of δt_reconnect fires first
XWaitDone ==
    /\ xpc = "wait"
    /\ ~ctx_done
    /\ now + Min2(ReconnectDelay, SyncPeriod) <= MaxTime
    /\ now' = now + Min2(ReconnectDelay, SyncPeriod)
    /\ xpc' = "xlog1"
    /\ UNCHANGED <<caller_logspecv, logspecv, rotating, ctx_done, tsync, t0, tnextv, imin, tmin,
                   xerr, wr, fired, attached, tried, connects_cancelled>>
    /\ XlogOnly

\* select after xlog1: ctx is done first: raise ctx.err()
XWaitCancel ==
    /\ xpc = "wait"
    /\ ctx_done
    /\ xpc' = "stop"
    /\ UNCHANGED <<caller_logspecv, logspecv, rotating, ctx_done, now, tsync, t0, tnextv, imin,
                   tmin, xerr, wr, fired, attached, tried, connects_cancelled>>
    /\ XlogOnly

\* the deferred xl.jemit_sync("detached", "stop", {})
XStop ==
    /\ xpc = "stop"
    /\ \E rotate \in NeedRotate :
          wr' = Written(wr, JemitSync("detached", "stop", rotate))
    /\ tsync' = now
    /\ xpc' = "end"
    /\ UNCHANGED <<caller_logspecv, logspecv, rotating, ctx_done, now, t0, tnextv, imin, tmin,
                   xerr, fired, attached, tried, connects_cancelled>>
    /\ XlogOnly

XlogNext ==
    \/ XNormalize \/ Cancel \/ XStart \/ XLog1Connect
    \/ XPick \/ XSleepDone \/ XSleepCancel \/ XFire
    \/ XDetach \/ XExcept \/ XWaitDone \/ XWaitCancel \/ XStop

SpecXlogInit == XlogInit /\ ConnIdle /\ ReaderIdle /\ FileIdle /\ RRIdle /\ SamplerIdle
    /\ BitSyncIdle
    /\ KpiIdle
    /\ LmIdle
    /\ TmIdle
    /\ CnIdle

SpecXlog == SpecXlogInit /\ [][XlogNext]_vars


-----------------------------------------------------------------------------
(***************************************************************************)
(* Claims about the logger, checked under SpecXlog.                        *)
(***************************************************************************)

\* C5 (as claimed): in the output of xlog for an accepted spec list there
\* are never more than LOS_window non-sync lines, replies and events
\* counted together, after a sync line and before the next one.
C5_SyncEveryLOSWindow ==
    wr.nsince <= LOS_window

IsPre(kind, flags)  == kind = "sync" /\ flags = "pre-logrotate"
IsPost(kind, flags) == kind = "sync" /\ flags = "post-logrotate"

\* C6: the output is rotated only inside the emission of a sync: of two
\* lines written one after the other, either both went to the same file
\* and the first is no pre-logrotate sync and the second no post-logrotate
\* sync, or the second went to the next file, the first is a sync with
\* flags pre-logrotate and the second a sync with flags post-logrotate; and
\* no line is pending after a rotation: the writer's file is the file of
\* the last line.
C6_RotationOnlyAtSync ==
    xpc \notin {"norm", "rejected"} =>
        /\ \A p \in wr.pairs :
              IF p.files = 0
              THEN ~IsPre(p.akind, p.aflags) /\ ~IsPost(p.bkind, p.bflags)
              ELSE /\ p.files = 1
                   /\ IsPre(p.akind, p.aflags)
                   /\ IsPost(p.bkind, p.bflags)
        /\ wr.last.kind # "none" => wr.file = wr.last.file
        /\ ~IsPre(wr.last.kind, wr.last.flags)
        /\ ~rotating => wr.file = 0

\* the output was rotated twice, and a reply was written to the third file
\* right after its post-logrotate sync
C6_Witness ==
    /\ wr.file = 2
    /\ wr.last.kind = "message" /\ wr.last.file = 2
    /\ [akind |-> "sync", aflags |-> "pre-logrotate",
        bkind |-> "sync", bflags |-> "post-logrotate", files |-> 1] \in wr.pairs
    /\ [akind |-> "sync", aflags |-> "post-logrotate",
        bkind |-> "message", bflags |-> "", files |-> 0] \in wr.pairs

\* C7 (as claimed, its last part): xlog never tries to connect again once
\* ctx is cancelled.
C7_NoRetryOnceCancelled ==
    connects_cancelled = 0

\* the number of firings of spec i among the first n firings of the cycle
NFired(i, n) == Cardinality({k \in 1..n : fired[k].i = i})

\* the number of offsets 0, p, 2p, ... that are below t
NOffsetsBelow(p, t) == (t + p - 1) \div p

C37_AttachDetachAlternate ==
    xpc \notin {"norm", "rejected", "start"} =>
        /\ wr.seen # "bad" /\ wr.seen # "empty"
        /\ (wr.seen = "attached") = attached
        /\ (wr.seen = "stopped") = (xpc = "end")
        /\ xpc = "end" => wr.last.kind = "sync" /\ wr.last.name = "stop"
                          /\ wr.last.state = "detached"

\* xlog ended after a cycle in which a reply and a sync(attached) were
\* written, and a second cycle began before ctx was cancelled
C37_Witness ==
    /\ xpc = "end" /\ wr.seen = "stopped"
    /\ \E p \in wr.pairs : p.akind = "message" /\ p.bkind = "sync"
    /\ \E p \in wr.pairs : p.akind = "event" /\ p.bkind = "event"
    /\ now > 0


-----------------------------------------------------------------------------
(***************************************************************************)
(* Part 3. xlog.Reader: read() with its readahead for the covering sync.   *)
(* The stream is whatever _read1 finds next: an entry of one of the kinds  *)
(* below, or the end of the stream for now (more lines may come later).    *)
(* An entry is [kind, pos, n]: pos is its line number and n the value of   *)
(* _n_nosync once it was read; for a LOSError n is the number it reports.  *)
(* A Message without utc takes its timestamp from the covering sync; the   *)
(* sync(attached) events of the model all carry srv_time.  The Messages of *)
(* one stream either all carry utc or all come without it.                 *)
(***************************************************************************)

\* bound of the reader model: the number of lines of the stream
MaxLines == 15

MessageKinds == {"message", "message_noutc"}
SyncKinds    == {"sync_attached", "sync_detached"}
\* what _read1 returns or raises ("error": ParseError of a malformed line)
EntryKinds   == {IF utc THEN "message" ELSE "message_noutc"}
                \cup SyncKinds \cup {"event", "error"}

NoResult == [kind |-> "none", pos |-> 0, n |-> 0]

ReaderInit ==
    /\ utc \in BOOLEAN
    /\ rpos = "idle"
    /\ lineno = 0
    /\ sync = 0
    /\ n_nosync = 0
    /\ emsgq = <<>>
    /\ result = NoResult
    /\ result_before = NoResult

\* (mutant of NoSyncAfter: events and errors reset the counter as syncs do)
NoSyncAfter_ResetOnAny(kind) == IF kind \in MessageKinds THEN n_nosync + 1 ELSE 0

\* _n_nosync after an entry of that kind was read
NoSyncAfter(kind) == IF kind \in SyncKinds THEN 0 ELSE n_nosync + 1

\* read(), the readahead loop, one turn: _read1 gives the next entry
ReadAhead(kind) ==
    /\ \/ rpos = "idle" /\ emsgq = <<>>
       \/ rpos = "ahead"
    /\ lineno < MaxLines
    /\ lineno' = lineno + 1
    /\ n_nosync' = NoSyncAfter(kind)
    /\ sync' = IF kind = "sync_attached" THEN lineno + 1 ELSE sync
    /\ emsgq' = Append(emsgq, [kind |-> kind, pos |-> lineno + 1, n |-> NoSyncAfter(kind)])
                \o (IF kind \notin SyncKinds /\ NoSyncAfter(kind) > LOS_window
                    THEN <<[kind |-> "LOSError", pos |-> lineno + 1, n |-> NoSyncAfter(kind)]>>
                    ELSE <<>>)
    /\ rpos' = IF kind \in MessageKinds /\ sync = 0 THEN "ahead" ELSE "flush"
    /\ UNCHANGED <<utc, result, result_before>>
    /\ ReaderOnly

\* read(), the readahead loop, one turn: _read1 gives None: EOF is returned
\* if nothing is queued, else the queue is flushed
ReadAheadEOF ==
    /\ \/ rpos = "idle" /\ emsgq = <<>>
       \/ rpos = "ahead"
    /\ IF emsgq = <<>>
       THEN /\ result' = [kind |-> "EOF", pos |-> lineno, n |-> 0]
            /\ result_before' = result
            /\ rpos' = "idle"
       ELSE /\ rpos' = "flush"
            /\ UNCHANGED <<result, result_before>>
    /\ UNCHANGED <<utc, lineno, sync, n_nosync, emsgq>>
    /\ ReaderOnly

\* read(), the flush of the queue: the head is returned or raised; the two
\* asserts fail the call with AssertionError, the head already taken
ReadFlush ==
    /\ \/ rpos = "idle" /\ emsgq # <<>>
       \/ rpos = "flush"
    /\ LET x    == Head(emsgq)
           rest == Tail(emsgq)
       IN  /\ emsgq' = rest
           /\ IF x.kind \notin MessageKinds
              THEN IF \E k \in 1..Len(rest) : rest[k].kind \in MessageKinds
                   THEN /\ result' = [kind |-> "AssertionError", pos |-> x.pos, n |-> 0]
                        /\ UNCHANGED sync
                   ELSE IF x.kind = "sync_attached"
                   THEN /\ result' = IF sync = x.pos
                                     THEN x
                                     ELSE [kind |-> "AssertionError", pos |-> x.pos, n |-> 0]
                        /\ UNCHANGED sync
                   ELSE /\ sync' = 0
                        /\ result' = x
              ELSE /\ result' = IF x.kind = "message_noutc" /\ sync = 0
                                THEN [kind |-> "ParseError", pos |-> x.pos, n |-> x.n]
                                ELSE x
                   /\ UNCHANGED sync
    /\ result_before' = result
    /\ rpos' = "idle"
    /\ UNCHANGED <<utc, lineno, n_nosync>>
    /\ ReaderOnly

ReaderNext ==
    \/ \E kind \in EntryKinds : ReadAhead(kind)
    \/ ReadAheadEOF
    \/ ReadFlush

SpecReaderInit == ReaderInit /\ ConnIdle /\ NormIdle /\ XlIdle /\ FileIdle /\ RRIdle /\ SamplerIdle
    /\ BitSyncIdle
    /\ KpiIdle
    /\ LmIdle
    /\ TmIdle
    /\ CnIdle

SpecReader == SpecReaderInit /\ [][ReaderNext]_vars

-----------------------------------------------------------------------------
(***************************************************************************)
(* Claims about the Reader, checked under SpecReader.                      *)
(***************************************************************************)

\* C10 (as claimed): read() reports LOSError right after the entry with
\* which the number of non-sync entries read since the last sync went above
\* LOS_window, covering sync or not, and reports no LOSError otherwise.
C10_LOSErrorAsSoonAsWindowExceeded ==
    /\ (result_before.kind \notin {"none", "LOSError", "AssertionError", "EOF"}
        /\ result_before.n > LOS_window)
          => result.kind = "LOSError"
    /\ result.kind = "LOSError"
          => /\ result.n > LOS_window
             /\ result_before.pos = result.pos
             /\ result_before.n = result.n


\* the entry the step has read, if it has read one
HasRead   == lineno' = lineno + 1
EntryRead == emsgq'[Len(emsgq) + 1]

\* C11 (as claimed): any event or error read from the stream resets the
\* counter of entries seen without a sync to zero, as a sync event does.
C11_AnyEventResetsCounter ==
    [][HasRead /\ EntryRead.kind \notin MessageKinds => n_nosync' = 0]_vars

\* C11 (amended): only a sync event, attached or detached, resets the
\* counter; every other entry read, a Message, another event or an error,
\* adds one to it.
C11_OnlySyncResetsCounter ==
    [][HasRead => n_nosync' = IF EntryRead.kind \in SyncKinds THEN 0 ELSE n_nosync + 1]_vars

\* an event was read after a Message and the counter stands at 2
C11_Witness ==
    /\ Len(emsgq) = 2
    /\ emsgq[1].kind \in MessageKinds
    /\ emsgq[2].kind = "event"
    /\ n_nosync = 2


\* C14 (as claimed): read() gives EOF only with nothing queued and every
\* entry read so far returned; the entries of the stream, those appended
\* after an EOF as well, are returned one after the other in the order of
\* their lines, none left out and none twice: a LOSError comes with the
\* position of the entry returned before it, and a read() that fails an
\* assert has taken no entry from the queue.
C14_EOFOnlyAfterAllReturned ==
    /\ result.kind = "EOF" /\ rpos = "idle" => emsgq = <<>> /\ result.pos = lineno
    /\ result.kind \in {"EOF", "LOSError", "AssertionError"}
          => result.pos = result_before.pos
    /\ result.kind \in EntryKinds \cup {"ParseError"}
          => result.pos = result_before.pos + 1

\* read() is about to take the head of the queue
AtFlush == emsgq # <<>> /\ rpos \in {"idle", "flush"}

\* C40: in the readahead queue the entries that are not Messages (events,
\* syncs, errors) are only at the tail: when read() takes such an entry from
\* the head of the queue, no Message is queued behind it, a LOSError queued
\* during the readahead for a covering sync included.
C40_NonMessagesOnlyAtTail ==
    AtFlush /\ Head(emsgq).kind \notin MessageKinds
        => \A k \in 2 .. Len(emsgq) : emsgq[k].kind \notin MessageKinds


-----------------------------------------------------------------------------
(***************************************************************************)
(* Part 3b. xlog.Reader over a whole file: the entries Reader(f) and       *)
(* Reader(f, reverse=True) give when read() is called up to EOF, as a      *)
(* function of the lines of the file.  A line is [kind, id, off]: id is    *)
(* its number in the file and stands for its content and its own time; off *)
(* is timestamp - srv_time of a sync that has srv_time, 0 for other lines. *)
(* An entry given is [kind, pos, id, off]: off is the offset that went     *)
(* into the timestamp of a Message without utc, 0 when the timestamp is    *)
(* the entry's own.  The reverse reader gets the lines from the reverse    *)
(* line reader, last line first.                                           *)
(***************************************************************************)

\* bound of the file model: the number of lines of the file
MaxFile == 4

\* timestamp - srv_time of a sync
Offsets == {1, 2}

\* sync(attached) comes with srv_time or, in the reader's eyes, without
AttachedKinds == {"sync_attached", "sync_attached_nosrvtime"}
FileSyncKinds == AttachedKinds \cup {"sync_detached"}
LineKinds     == MessageKinds \cup FileSyncKinds \cup {"event", "error"}

LineVariants  == {[kind |-> k, off |-> 0] : k \in LineKinds \ {"sync_attached"}}
                 \cup {[kind |-> "sync_attached", off |-> o] : o \in Offsets}

RECURSIVE Files(_)
Files(n) == IF n = 0 THEN {<<>>}
            ELSE Files(n-1) \cup
                 {Append(f, [kind |-> v.kind, id |-> n, off |-> v.off]) :
                      f \in {g \in Files(n-1) : Len(g) = n-1}, v \in LineVariants}

\* the lines as the reverse line reader hands them over
Reversed(seq) == [k \in 1..Len(seq) |-> seq[Len(seq) + 1 - k]]

\* Reader.__init__; i counts the lines read, sync is the line read that
\* _sync holds (0: None)
Reader0 == [i |-> 0, sync |-> 0, n |-> 0, q |-> <<>>, out |-> <<>>]

\* xd.pos[1]: _lineno goes +1 or -1 with every line
Pos(i, reverse) == IF reverse THEN 0 - i ELSE i

\* read(), readahead: one entry is read and queued, LOSError behind it if
\* the window is exceeded
Queued(st, x, reverse) ==
    LET n1 == IF x.kind \in FileSyncKinds THEN 0 ELSE st.n + 1
    IN  [st EXCEPT !.i = @ + 1,
                   !.n = n1,
                   !.sync = IF x.kind \in AttachedKinds THEN st.i + 1 ELSE @,
                   !.q = Append(@, [kind |-> x.kind, pos |-> Pos(st.i + 1, reverse),
                                    id |-> x.id, off |-> 0, line |-> st.i + 1])
                         \o (IF x.kind \notin FileSyncKinds /\ n1 > LOS_window
                             THEN <<[kind |-> "LOSError", pos |-> Pos(st.i + 1, reverse),
                                     id |-> 0, off |-> 0, line |-> 0]>>
                             ELSE <<>>)]

Given(kind, x, off) == [kind |-> kind, pos |-> x.pos, id |-> x.id, off |-> off]

\* read(), flush of the queue: the head is returned or raised
Flushed(st, lines) ==
    LET x    == Head(st.q)
        rest == Tail(st.q)
        st1  == [st EXCEPT !.q = rest]
    IN  IF x.kind \notin MessageKinds
        THEN IF \E k \in 1..Len(rest) : rest[k].kind \in MessageKinds
             THEN [st1 EXCEPT !.out = Append(@, Given("AssertionError", x, 0))]
             ELSE IF x.kind \in AttachedKinds
             THEN [st1 EXCEPT !.out = Append(@, IF st.sync = x.line
                                                THEN Given(x.kind, x, 0)
                                                ELSE Given("AssertionError", x, 0))]
             ELSE [st1 EXCEPT !.sync = 0, !.out = Append(@, Given(x.kind, x, 0))]
        ELSE IF x.kind = "message_noutc"
             THEN IF st.sync # 0 /\ lines[st.sync].kind = "sync_attached"
                  THEN [st1 EXCEPT !.out = Append(@, Given(x.kind, x, lines[st.sync].off))]
                  ELSE [st1 EXCEPT !.out = Append(@, Given("ParseError", x, 0))]
             ELSE [st1 EXCEPT !.out = Append(@, Given(x.kind, x, 0))]

\* read(), the readahead loop up to its break or return
RECURSIVE ReadAheadLoop(_, _, _)
ReadAheadLoop(st, lines, reverse) ==
    IF st.i = Len(lines)
    THEN IF st.q = <<>>
         THEN [st EXCEPT !.out = Append(@, [kind |-> "EOF", pos |-> 0, id |-> 0, off |-> 0])]
         ELSE Flushed(st, lines)
    ELSE LET x   == lines[st.i + 1]
             st1 == Queued(st, x, reverse)
         IN  IF x.kind \in MessageKinds /\ st1.sync = 0
             THEN ReadAheadLoop(st1, lines, reverse)
             ELSE Flushed(st1, lines)

\* one call of read()
Read(st, lines, reverse) ==
    IF st.q # <<>> THEN Flushed(st, lines) ELSE ReadAheadLoop(st, lines, reverse)

\* read() is called until it gives EOF or fails an assert
RECURSIVE ReadAll(_, _, _)
ReadAll(st, lines, reverse) ==
    LET st1 == Read(st, lines, reverse)
    IN  IF st1.out[Len(st1.out)].kind \in {"EOF", "AssertionError"}
        THEN st1.out
        ELSE ReadAll(st1, lines, reverse)

FileInit ==
    /\ file \in Files(MaxFile)
    /\ fwd = <<>>
    /\ rev = <<>>
    /\ fdone = {}

\* xr = Reader(f), read to the end
ReadForward ==
    /\ "forward" \notin fdone
    /\ fwd' = ReadAll(Reader0, file, FALSE)
    /\ fdone' = fdone \cup {"forward"}
    /\ UNCHANGED <<file, rev>>
    /\ FileOnly

\* br = Reader(f, reverse=True), read to the end
ReadReverse ==
    /\ "reverse" \notin fdone
    /\ rev' = ReadAll(Reader0, Reversed(file), TRUE)
    /\ fdone' = fdone \cup {"reverse"}
    /\ UNCHANGED <<file, fwd>>
    /\ FileOnly

FileNext == ReadForward \/ ReadReverse

SpecFileInit == FileInit /\ ConnIdle /\ NormIdle /\ XlIdle /\ ReaderIdle /\ RRIdle /\ SamplerIdle
    /\ BitSyncIdle
    /\ KpiIdle
    /\ LmIdle
    /\ TmIdle
    /\ CnIdle

SpecFile == SpecFileInit /\ [][FileNext]_vars


-----------------------------------------------------------------------------
(***************************************************************************)
(* Claims about the Reader over a whole file, checked under SpecFile.      *)
(***************************************************************************)

Abs(x) == IF x < 0 THEN 0 - x ELSE x

\* sync(attached) with srv_time at line j covers the Message at line i: only
\* Messages lie between the two
Covers(j, i) ==
    /\ j # i
    /\ file[j].kind = "sync_attached"
    /\ \A k \in 1..Len(file) :
          (k > i /\ k < j) \/ (k > j /\ k < i) => file[k].kind \in MessageKinds

\* the covering syncs nearest to line i
NearestCovering(i) ==
    {j \in 1..Len(file) : /\ Covers(j, i)
                          /\ \A k \in 1..Len(file) : Covers(k, i) => Abs(j - i) <= Abs(k - i)}

\* C12 (as claimed): read forward, the file's entries are given in order
\* one for one, and a Message without utc is given with the offset of the
\* nearest sync(attached) with srv_time that covers it, before or after it,
\* or, if there is no such sync, as ParseError in its place.
C12_TimestampFromNearestCoveringSync ==
    "forward" \in fdone =>
        /\ Len(fwd) = Len(file) + 1
        /\ \A i \in 1..Len(file) :
              /\ fwd[i].pos = i /\ fwd[i].id = i
              /\ file[i].kind = "message_noutc" =>
                    IF NearestCovering(i) = {}
                    THEN fwd[i].kind = "ParseError"
                    ELSE /\ fwd[i].kind = "message_noutc"
                         /\ \E j \in NearestCovering(i) : fwd[i].off = file[j].off

\* C13 (as claimed): read in reverse, the file gives the entries of the
\* forward reading in reversed order: line for line the same type, the same
\* content and the same timestamp, at positions -1, -2, ... from the last
\* line.
C13_ReverseYieldsForwardReversed ==
    fdone = {"forward", "reverse"} =>
        /\ Len(rev) = Len(fwd)
        /\ \A i \in 1..Len(file) :
              LET f == fwd[i]
                  r == rev[Len(file) + 1 - i]
              IN  /\ r.kind = f.kind
                  /\ r.id = f.id
                  /\ r.off = f.off
                  /\ r.pos = 0 - (Len(file) + 1 - i)


-----------------------------------------------------------------------------
(***************************************************************************)
(* Part 3c. xlog._ReverseLineReader: readline() gives the lines of the     *)
(* underlying stream from the last to the first, loading the stream in     *)
(* chunks of _bufsize from its end.  The stream is a sequence of elements, *)
(* "\n" or something else, and a position in it is an index, as in a       *)
(* binary file or an io.StringIO.                                          *)
(***************************************************************************)

\* bounds of the reverse line reader model: the stream and the buffer
MaxData    == 4
MaxBufsize == 5

LF    == "\n"
Chars == {"a", LF}

RECURSIVE Streams(_)
Streams(n) == IF n = 0 THEN {<<>>}
              ELSE Streams(n-1) \cup
                   {Append(d, c) : d \in {e \in Streams(n-1) : Len(e) = n-1}, c \in Chars}

\* _buf.rfind(_lfchr), counted from 1; 0 if there is none
RFindLF(b) == IF \E k \in 1..Len(b) : b[k] = LF
              THEN CHOOSE k \in 1..Len(b) : b[k] = LF /\ \A m \in (k+1)..Len(b) : b[m] # LF
              ELSE 0

\* (mutant of StartsFromEndingLF: chunkv is not looked at)
StartsFromEndingLF_AnyChunk(chunkv, b, lf) == lf = Len(b)

\* len(chunkv) == 0 and lf+1 == len(_buf): the scan started from the \n
\* that ends the line
StartsFromEndingLF(chunkv, b, lf) == chunkv = <<>> /\ lf = Len(b)

\* readline(): the loop, from the state [_buf, _bufpos] with the chunks
\* gathered so far joined in chunkv; gives the state left and the line
RECURSIVE ReadlineLoop(_, _, _, _, _)
ReadlineLoop(data, bsize, b, bpos, chunkv) ==
    IF b = <<>>
    THEN LET newpos == IF bpos - bsize > 0 THEN bpos - bsize ELSE 0
         IN  IF bpos - newpos = 0
             THEN [buf |-> b, bufpos |-> bpos, line |-> chunkv]
             ELSE ReadlineLoop(data, bsize, SubSeq(data, newpos + 1, bpos), newpos, chunkv)
    ELSE LET lf == RFindLF(b)
         IN  IF lf = 0
             THEN ReadlineLoop(data, bsize, <<>>, bpos, b \o chunkv)
             ELSE IF StartsFromEndingLF(chunkv, b, lf)
             THEN ReadlineLoop(data, bsize, SubSeq(b, 1, lf - 1), bpos,
                               SubSeq(b, lf, Len(b)) \o chunkv)
             ELSE [buf |-> SubSeq(b, 1, lf), bufpos |-> bpos,
                   line |-> SubSeq(b, lf + 1, Len(b)) \o chunkv]

\* _ReverseLineReader(r, bufsize): seek to the end, empty buffer
RRInit ==
    /\ rdata \in Streams(MaxData)
    /\ bufsize \in 1..MaxBufsize
    /\ rbuf = <<>>
    /\ bufpos = Len(rdata)
    /\ rlines = <<>>

\* the last readline() returned the empty value
AtStart == rlines # <<>> /\ rlines[Len(rlines)] = <<>>

\* readline(); the caller stops at the first empty line
Readline ==
    /\ ~AtStart
    /\ LET r == ReadlineLoop(rdata, bufsize, rbuf, bufpos, <<>>)
       IN  /\ rbuf' = r.buf
           /\ bufpos' = r.bufpos
           /\ rlines' = Append(rlines, r.line)
    /\ UNCHANGED <<rdata, bufsize>>
    /\ RROnly

RRNext == Readline

SpecRRInit == RRInit /\ ConnIdle /\ NormIdle /\ XlIdle /\ ReaderIdle /\ FileIdle /\ SamplerIdle
    /\ BitSyncIdle
    /\ KpiIdle
    /\ LmIdle
    /\ TmIdle
    /\ CnIdle

SpecRR == SpecRRInit /\ [][RRNext]_vars

-----------------------------------------------------------------------------
(***************************************************************************)
(* Claims about the reverse line reader, checked under SpecRR.             *)
(***************************************************************************)

\* the lines of a stream as readline() of the stream itself gives them:
\* each up to and with its \n, the last one up to the end of the stream
RECURSIVE LinesOf(_)
LinesOf(d) ==
    IF d = <<>> THEN <<>>
    ELSE LET lf == IF \E k \in 1..Len(d) : d[k] = LF
                   THEN CHOOSE k \in 1..Len(d) : d[k] = LF /\ \A m \in 1..(k-1) : d[m] # LF
                   ELSE Len(d)
         IN  <<SubSeq(d, 1, lf)>> \o LinesOf(SubSeq(d, lf + 1, Len(d)))

RECURSIVE Joined(_)
Joined(ls) == IF ls = <<>> THEN <<>> ELSE Head(ls) \o Joined(Tail(ls))

-----------------------------------------------------------------------------
(***************************************************************************)
(* Part 4. amari.drb._Sampler: converts the stream of ue_get[stats]        *)
(* reports into Samples, the bursts of continuous transmission of one UE   *)
(* on one QCI.  Sampler is two _Samplers, 'dl' with use_bitsync and use_ri *)
(* and 'ul' without them; the model is one _Sampler with both flags free.  *)
(*                                                                         *)
(* Times are counted in tti (the source counts seconds, tti = 0.001), so   *)
(* that dt/tti is dt.  The floats of the source are rationals here: pairs  *)
(* <<n, d>> in lowest terms with d > 0.  The sampler (SpecSampler) works  *)
(* with them exactly; the arithmetic of _BitSync1 and _CTXBytesSplitter    *)
(* rounds when float_bits says so, which SpecBitSync uses.                 *)
(***************************************************************************)

RECURSIVE Gcd(_, _)
Gcd(a, b) == IF b = 0 THEN a ELSE Gcd(b, a % b)

Rat(n, d) == LET g == Gcd(IF n < 0 THEN -n ELSE n, d) IN <<n \div g, d \div g>>
RInt(k)   == <<k, 1>>
R0        == RInt(0)
R1        == RInt(1)

RAdd(a, b) == Rat(a[1] * b[2] + b[1] * a[2], a[2] * b[2])
RSub(a, b) == Rat(a[1] * b[2] - b[1] * a[2], a[2] * b[2])
RMul(a, b) == Rat(a[1] * b[1], a[2] * b[2])
RDiv(a, b) == IF b[1] > 0 THEN Rat(a[1] * b[2], a[2] * b[1])
                          ELSE Rat(-(a[1] * b[2]), -(a[2] * b[1]))
RLt(a, b)  == a[1] * b[2] < b[1] * a[2]
RLe(a, b)  == a[1] * b[2] <= b[1] * a[2]
RMin(a, b) == IF RLt(b, a) THEN b ELSE a
RMax(a, b) == IF RLt(a, b) THEN b ELSE a

\* ---- the floats of _BitSync1 and _CTXBytesSplitter.  A Python float keeps
\* 53 bits of mantissa and every operation rounds its exact result to the
\* nearest float, ties to even.  Here a float keeps float_bits bits and has
\* no limit on its exponent; with float_bits = 0 nothing is rounded.

RECURSIVE Pow2(_)
Pow2(k) == IF k = 0 THEN 1 ELSE 2 * Pow2(k - 1)

\* n/d rounded to the nearest integer, ties to even
RoundHalfEven(n, d) ==
    IF 2 * (n % d) > d \/ (2 * (n % d) = d /\ (n \div d) % 2 = 1) THEN (n \div d) + 1
    ELSE n \div d

\* (n/d) * (sn/sd) with n/d > 0 rounded to p bits
RECURSIVE RoundedPos(_, _, _, _, _)
RoundedPos(n, d, sn, sd, p) ==
    IF n >= d * Pow2(p) THEN RoundedPos(n, 2 * d, 2 * sn, sd, p)
    ELSE IF n < d * Pow2(p - 1) THEN RoundedPos(2 * n, d, sn, 2 * sd, p)
    ELSE Rat(RoundHalfEven(n, d) * sn, sd)

\* q rounded to p bits of mantissa
Rounded(q, p) ==
    IF q[1] = 0 THEN q
    ELSE IF q[1] > 0 THEN RoundedPos(q[1], q[2], 1, 1, p)
    ELSE RSub(R0, RoundedPos(-q[1], q[2], 1, 1, p))

\* the float that an operation with the exact result q gives
Fl(q) == IF float_bits = 0 THEN q ELSE Rounded(q, float_bits)

FAdd(a, b) == Fl(RAdd(a, b))
FSub(a, b) == Fl(RSub(a, b))
FMul(a, b) == Fl(RMul(a, b))
FDiv(a, b) == Fl(RDiv(a, b))

\* 1 tti in the unit of time of the model
tti == R1

EmptyMap     == [k \in {} |-> 0]
MinOf(S)     == CHOOSE k \in S : \A j \in S : k <= j
Put(f, k, v) == [j \in DOMAIN f \cup {k} |-> IF j = k THEN v ELSE f[j]]
Del(f, k)    == [j \in DOMAIN f \ {k} |-> f[j]]
Get(f, k, d) == IF k \in DOMAIN f THEN f[k] ELSE d

\* ---- _QCI_Flow: the in-progress collection of one Sample

QCIFlow0 == [tx_bytes |-> 0, tx_time |-> R0, tx_time_err |-> R0]

\* _QCI_Flow._sample; what its assert requires of the Sample is SampleOK
QFSample(qf) ==
    [tx_bytes |-> qf.tx_bytes, tx_time |-> qf.tx_time, tx_time_err |-> qf.tx_time_err]

SampleOK(s) ==
    /\ s.tx_bytes > 0
    /\ RLt(R0, s.tx_time)
    /\ RLe(R0, s.tx_time_err)
    /\ RLt(R0, RSub(s.tx_time, s.tx_time_err))

TxTime(tx_lo, tx_hi)    == RMul(RDiv(RAdd(tx_lo, tx_hi), RInt(2)), tti)
TxTimeErr_Sum(tx_lo, tx_hi) == RMul(RDiv(RAdd(tx_hi, tx_lo), RInt(2)), tti)
TxTimeErr(tx_lo, tx_hi) == RMul(RDiv(RSub(tx_hi, tx_lo), RInt(2)), tti)

IsBig_Tenth(tx_hi, dt_tti) == ~RLt(tx_hi, RMul(<<1, 10>>, dt_tti))
\* the update is big: the sample continues
IsBig(tx_hi, dt_tti) == ~RLt(tx_hi, RMul(<<9, 10>>, dt_tti))

\* what _QCI_Flow._update adds to the flow
QFAdded(qf, tx_bytes, tx_lo, tx_hi) ==
    [tx_bytes    |-> qf.tx_bytes + tx_bytes,
     tx_time     |-> RAdd(qf.tx_time, TxTime(tx_lo, tx_hi)),
     tx_time_err |-> RAdd(qf.tx_time_err, TxTimeErr(tx_lo, tx_hi))]

\* the flow gives its Sample and is reset
QFEmit(qf) == [qf |-> QCIFlow0, out |-> <<QFSample(qf)>>, err |-> ~SampleOK(qf)]

\* _QCI_Flow.update -> [qf, out, err]: the flow after it, the Samples it
\* gives and whether an assert failed
QFUpdate(qf, dt, tx_bytes, tx_lo, tx_hi) ==
    IF ~(tx_bytes > 0)
    THEN [qf |-> qf, out |-> <<>>, err |-> TRUE]
    ELSE IF qf.tx_time # R0 /\ ~IsBig(tx_hi, RDiv(RInt(dt), tti))
    THEN QFEmit(QFAdded(qf, tx_bytes, tx_lo, tx_hi))
    ELSE [qf |-> QFAdded(qf, tx_bytes, tx_lo, tx_hi), out |-> <<>>, err |-> FALSE]

\* _QCI_Flow.finish -> [qf, out, err]
QFFinish(qf) ==
    IF qf.tx_time # R0 THEN QFEmit(qf) ELSE [qf |-> qf, out |-> <<>>, err |-> FALSE]

\* qci_samples.setdefault(qci, []).append(sample) for every sample of out
Collect(qsamples, qci, out) ==
    IF out = <<>> THEN qsamples ELSE Put(qsamples, qci, Get(qsamples, qci, <<>>) \o out)


\* ---- _UE._update_qci_flows
\* a frame is [dt, tx_bytes, u]; u is a _Utx [qtx_bytes, cutx] and cutx[cell]
\* a _UCtx [tx, retx, bitrate, rank, xl_use_avg, tx_bytes].  The flows of the
\* UE and the Samples collected so far travel as acc = [qci_flows, qsamples,
\* err]; err: an assert failed

\* the time of the transmission on one cell, in tti: ctx and its limits
Ctx(uc, dt_tti)   == RMin(RDiv(RAdd(uc.tx, uc.retx), RInt(uc.rank)), dt_tti)
CtxLo(uc, dt_tti) == IF Ctx(uc, dt_tti) = R0 THEN RMin(R1, dt_tti) ELSE Ctx(uc, dt_tti)
CtxHi(uc, dt_tti) ==
    IF Ctx(uc, dt_tti) = R0 \/ ~RLt(uc.xl_use_avg, <<9, 10>>) THEN dt_tti ELSE Ctx(uc, dt_tti)

RECURSIVE TxLo(_, _, _)
TxLo(cutx, cs, dt_tti) ==
    IF cs = {} THEN R0
    ELSE RMax(TxLo(cutx, cs \ {MinOf(cs)}, dt_tti), CtxLo(cutx[MinOf(cs)], dt_tti))

RECURSIVE SumCtxHi(_, _, _)
SumCtxHi(cutx, cs, dt_tti) ==
    IF cs = {} THEN R0
    ELSE RAdd(SumCtxHi(cutx, cs \ {MinOf(cs)}, dt_tti), CtxHi(cutx[MinOf(cs)], dt_tti))

TxHi(cutx, dt_tti) == RMin(SumCtxHi(cutx, DOMAIN cutx, dt_tti), dt_tti)

\* the lower limit of the time of one QCI: its share of tx_lo
Share(tx_bytes_qci, tx_lo, tx_bytes) == RDiv(RMul(RInt(tx_bytes_qci), tx_lo), tx_bytes)
LoweredAbove(q, tx_hi) == IF RLt(tx_hi, q) THEN RSub(q, <<1, 10000>>) ELSE q
QtxLo(tx_bytes_qci, tx_lo, tx_hi, tx_bytes) ==
    LoweredAbove(Share(tx_bytes_qci, tx_lo, tx_bytes), tx_hi)

\* the update of the flow of one QCI with its assert -> [qf, out, err]
FlowUpdate(qf, dt, tx_bytes_qci, qtx_lo, tx_hi, tx_bytes) ==
    IF tx_bytes = R0 \/ ~(RLt(R0, qtx_lo) /\ RLe(qtx_lo, tx_hi))
    THEN [qf |-> qf, out |-> <<>>, err |-> TRUE]
    ELSE QFUpdate(qf, dt, tx_bytes_qci, qtx_lo, tx_hi)

\* acc after the flow of qci became r.qf and gave r.out
Updated(acc, qci, r) ==
    [qci_flows |-> Put(acc.qci_flows, qci, r.qf),
     qsamples  |-> Collect(acc.qsamples, qci, r.out),
     err       |-> acc.err \/ r.err]

\* share/distribute the time over the QCIs of todo
RECURSIVE UpdateLive(_, _, _, _, _)
UpdateLive(frame, tx_lo, tx_hi, todo, acc) ==
    IF todo = {} \/ acc.err THEN acc
    ELSE UpdateLive(frame, tx_lo, tx_hi, todo \ {MinOf(todo)},
             Updated(acc, MinOf(todo),
                 FlowUpdate(Get(acc.qci_flows, MinOf(todo), QCIFlow0), frame.dt,
                            frame.u.qtx_bytes[MinOf(todo)],
                            QtxLo(frame.u.qtx_bytes[MinOf(todo)], tx_lo, tx_hi, frame.tx_bytes),
                            tx_hi, frame.tx_bytes)))

\* acc after the flow of qci was popped and finished with r
Finished(acc, qci, r) ==
    [qci_flows |-> Del(acc.qci_flows, qci),
     qsamples  |-> Collect(acc.qsamples, qci, r.out),
     err       |-> acc.err \/ r.err]

\* finish the flows of todo
RECURSIVE FinishFlows(_, _)
FinishFlows(todo, acc) ==
    IF todo = {} THEN acc
    ELSE FinishFlows(todo \ {MinOf(todo)},
                     Finished(acc, MinOf(todo), QFFinish(acc.qci_flows[MinOf(todo)])))

\* finish flows that did not get an update
FinishNotLive(acc, live) ==
    IF acc.err THEN acc ELSE FinishFlows(DOMAIN acc.qci_flows \ live, acc)

\* the body of the loop of _update_qci_flows, for one frame
UpdateFrame(acc, frame) ==
    FinishNotLive(UpdateLive(frame,
                             TxLo(frame.u.cutx, DOMAIN frame.u.cutx, RDiv(RInt(frame.dt), tti)),
                             TxHi(frame.u.cutx, RDiv(RInt(frame.dt), tti)),
                             DOMAIN frame.u.qtx_bytes, acc),
                  DOMAIN frame.u.qtx_bytes)

\* _UE._update_qci_flows
RECURSIVE UpdateQciFlows(_, _)
UpdateQciFlows(acc, frames) ==
    IF frames = <<>> \/ acc.err THEN acc
    ELSE UpdateQciFlows(UpdateFrame(acc, Head(frames)), Tail(frames))


\* ---- _BitSync1: the substream of one cell, entries <<ctx_bytes, #tx>>

BitSync1(i) == [txq |-> <<>>, i_txq |-> i, i_lshift |-> i, err |-> FALSE]

\* t21 of lshift: the part of #tx of the next entry e2 that belongs to e1
T21(e1, e2) == FSub(e2[2], IF e1[1] # R0 THEN FDiv(FMul(e2[1], e1[2]), e1[1]) ELSE e2[2])

\* the two entries if t21 were given to e1 and not taken from e2
Shifted_NotTaken(e1, e2, t21) ==
    IF RLt(R0, t21) THEN << <<e1[1], FAdd(e1[2], t21)>>, e2 >>
                    ELSE <<e1, e2>>

\* the two entries after t21 moved from e2 to e1
Shifted(e1, e2, t21) ==
    IF RLt(R0, t21) THEN << <<e1[1], FAdd(e1[2], t21)>>, <<e2[1], FSub(e2[2], t21)>> >>
                    ELSE <<e1, e2>>

\* s1 with txq[k], txq[k+1] = p
WithEntries(s1, k, p) ==
    [s1 EXCEPT !.txq = [@ EXCEPT ![k] = p[1], ![k + 1] = p[2]],
               !.err = @ \/ RLt(p[1][2], R0) \/ RLt(p[2][2], R0)]

\* lshift(i) of _BitSync1.next, k = i - s1.i_txq + 1
LShift(s1, k) ==
    IF ~(1 <= k /\ k <= Len(s1.txq)) THEN [s1 EXCEPT !.err = TRUE]
    ELSE WithEntries(s1, k, Shifted(s1.txq[k], s1.txq[k + 1], T21(s1.txq[k], s1.txq[k + 1])))

RECURSIVE LShiftLoop(_)
LShiftLoop(s1) ==
    IF s1.err \/ ~(s1.i_lshift + 1 < s1.i_txq + Len(s1.txq)) THEN s1
    ELSE LShiftLoop([LShift(s1, s1.i_lshift - s1.i_txq + 1) EXCEPT !.i_lshift = @ + 1])

RECURSIVE SumB(_, _)
SumB(txq, l) == IF l = 0 THEN R0 ELSE FAdd(SumB(txq, l - 1), txq[l][1])
RECURSIVE SumT(_, _)
SumT(txq, l) == IF l = 0 THEN R0 ELSE FAdd(SumT(txq, l - 1), txq[l][2])

\* txq with #tx of its first l entries proportional to their bytes
Rebalanced(txq, l, sb, sumt) ==
    [k \in 1..Len(txq) |-> IF k <= l THEN <<txq[k][1], FDiv(FMul(txq[k][1], sumt), sb)>>
                                     ELSE txq[k]]

\* _BitSync1._rebalance
Rebalance(s1, l) ==
    IF ~(l <= Len(s1.txq) /\ l <= 3) THEN [s1 EXCEPT !.err = TRUE]
    ELSE IF SumB(s1.txq, l) = R0 THEN s1
    ELSE [s1 EXCEPT !.txq = Rebalanced(@, l, SumB(@, l), SumT(@, l)),
                    !.err = @ \/ RLt(SumT(s1.txq, l), R0)]

\* p = [s1, out] after txq[0] of the rebalanced r was popped and yielded
Yielded(r, out) ==
    [s1 |-> [r EXCEPT !.txq = Tail(@), !.i_txq = @ + 1], out |-> Append(out, Head(r.txq))]

\* the yield loop of _BitSync1.next
RECURSIVE YieldLoop(_)
YieldLoop(p) ==
    IF p.s1.err \/ Len(p.s1.txq) < 3 THEN p
    ELSE YieldLoop(Yielded(Rebalance(p.s1, 2), p.out))

\* _BitSync1.next -> [s1, out]
S1Next(s1, tx_bytes, tx) ==
    YieldLoop([s1  |-> LShiftLoop([s1 EXCEPT !.txq = Append(@, <<tx_bytes, tx>>)]),
               out |-> <<>>])

\* [s1, out] of _BitSync1.finish, r is s1 rebalanced
S1Flushed(s1, r) ==
    [s1  |-> [r EXCEPT !.txq = <<>>, !.i_txq = @ + Len(r.txq),
                       !.i_lshift = s1.i_txq + Len(r.txq),
                       !.err = @ \/ ~(Len(s1.txq) < 3)],
     out |-> r.txq]

\* _BitSync1.finish -> [s1, out]
S1Finish(s1) == S1Flushed(s1, Rebalance(s1, Len(s1.txq)))

\* ---- _CTXBytesSplitter: splits tx_bytes of a frame between its cells by
\* their bitrate in the frame and in the next one; txq holds [dt, tx_bytes, u]

NoBytes == <<0, 0>>     \* uc.tx_bytes = None

Bitrate2(u1, u2, c) ==
    u1.cutx[c].bitrate + (IF c \in DOMAIN u2.cutx THEN u2.cutx[c].bitrate ELSE 0)

RECURSIVE SumBitrate2(_, _, _)
SumBitrate2(u1, u2, cs) ==
    IF cs = {} THEN 0
    ELSE Bitrate2(u1, u2, MinOf(cs)) + SumBitrate2(u1, u2, cs \ {MinOf(cs)})

\* the part of tx_bytes of cell c
CellBytes(tx_bytes, u1, u2, c, sum) ==
    IF sum # 0 THEN FDiv(RInt(tx_bytes * Bitrate2(u1, u2, c)), RInt(sum))
               ELSE FDiv(RInt(tx_bytes), RInt(Cardinality(DOMAIN u1.cutx)))

\* u1 with .tx_bytes set on each of its cells
WithCellBytes(tx_bytes, u1, u2) ==
    [u1 EXCEPT !.cutx = [c \in DOMAIN @ |-> [@[c] EXCEPT !.tx_bytes =
        CellBytes(tx_bytes, u1, u2, c, SumBitrate2(u1, u2, DOMAIN u1.cutx))]]]

\* _CTXBytesSplitter.next -> [txq, out, err]; out holds [dt, u]
SplitNext(txq, dt, tx_bytes, u) ==
    IF Len(txq) = 0
    THEN [txq |-> <<[dt |-> dt, tx_bytes |-> tx_bytes, u |-> u]>>, out |-> <<>>, err |-> FALSE]
    ELSE [txq |-> <<[dt |-> dt, tx_bytes |-> tx_bytes, u |-> u]>>,
          out |-> <<[dt |-> txq[1].dt, u |-> WithCellBytes(txq[1].tx_bytes, txq[1].u, u)]>>,
          err |-> ~(Len(txq) < 2)]

ZUtx == [qtx_bytes |-> EmptyMap, cutx |-> EmptyMap]

\* _CTXBytesSplitter.finish -> [txq, out, err]
SplitFinish(txq) ==
    IF Len(txq) = 0 THEN [txq |-> <<>>, out |-> <<>>, err |-> FALSE]
    ELSE [SplitNext(txq, txq[1].dt, 0, ZUtx) EXCEPT !.txq = <<>>]


\* ---- _BitSync; its results are p = [bs, out], out holds frames

BitSync0 == [txsplit |-> <<>>, txq |-> <<>>, i_txq |-> 0, cbitsync1 |-> EmptyMap, err |-> FALSE]

\* what _assert_all_insync asserts
AllInSync(bs) ==
    \A c \in DOMAIN bs.cbitsync1 :
        /\ bs.cbitsync1[c].i_txq = bs.i_txq
        /\ Len(bs.cbitsync1[c].txq) = Len(bs.txq)
        /\ \A d \in DOMAIN bs.cbitsync1 : bs.cbitsync1[d].i_lshift = bs.cbitsync1[c].i_lshift

Checked(p) == [p EXCEPT !.bs.err = @ \/ ~AllInSync(p.bs)]

\* the _UCtx that _merge_cvbitnext1 gives to a cell the frame did not have
ZUCtx == [tx |-> R0, retx |-> R0, bitrate |-> 0, rank |-> 1, xl_use_avg |-> R0, tx_bytes |-> R0]

RECURSIVE SumCtxBytes(_, _, _)
SumCtxBytes(cv, cs, i) ==
    IF cs = {} THEN R0
    ELSE FAdd(cv[MinOf(cs)][i][1], SumCtxBytes(cv, cs \ {MinOf(cs)}, i))

\* the i-th frame that _merge_cvbitnext1 gives: txq[i] with #tx' of every cell
Merged(fr, cv, i) ==
    [dt       |-> fr.dt,
     tx_bytes |-> SumCtxBytes(cv, DOMAIN cv, i),
     u        |-> [fr.u EXCEPT !.cutx = [c \in DOMAIN @ \cup DOMAIN cv |->
                      IF c \in DOMAIN cv
                      THEN [Get(@, c, ZUCtx) EXCEPT !.tx = cv[c][i][2], !.retx = R0]
                      ELSE @[c]]]]

\* the first n frames of txq leave it merged with cv
MergedN(bs, cv, n) ==
    IF (\E c \in DOMAIN cv : Len(cv[c]) # n) \/ n > Len(bs.txq)
    THEN [bs |-> [bs EXCEPT !.err = TRUE], out |-> <<>>]
    ELSE [bs  |-> [bs EXCEPT !.txq = SubSeq(@, n + 1, Len(@)), !.i_txq = @ + n],
          out |-> [i \in 1..n |-> Merged(bs.txq[i], cv, i)]]

\* _BitSync._merge_cvbitnext1; cv[cell] is what the _BitSync1 of the cell gave
MergeCvbitnext1(bs, cv) ==
    IF DOMAIN cv = {} THEN [bs |-> bs, out |-> <<>>]
    ELSE MergedN(bs, cv, Len(cv[MinOf(DOMAIN cv)]))

\* the _BitSync1 of a cell that appears: zeros are prefed to it to align it
RECURSIVE Prefed(_, _)
Prefed(s1, len) == IF Len(s1.txq) >= len THEN s1 ELSE Prefed(S1Next(s1, R0, R0).s1, len)

\* len(s1_base.txq) and s1_base.i_lshift of _next
BaseLen(bs) ==
    IF DOMAIN bs.cbitsync1 = {} THEN 0 ELSE Len(bs.cbitsync1[MinOf(DOMAIN bs.cbitsync1)].txq)
BaseLShift(bs) ==
    IF DOMAIN bs.cbitsync1 = {} THEN bs.i_txq ELSE bs.cbitsync1[MinOf(DOMAIN bs.cbitsync1)].i_lshift

\* the _BitSync1 that _next feeds for cell c
S1Of(bs, c) ==
    IF c \in DOMAIN bs.cbitsync1 THEN bs.cbitsync1[c] ELSE Prefed(BitSync1(bs.i_txq), BaseLen(bs))

\* what _next feeds to the _BitSync1 of cell c
Fed(s1, u, c) ==
    IF c \in DOMAIN u.cutx
    THEN S1Next(s1, u.cutx[c].tx_bytes, FAdd(u.cutx[c].tx, u.cutx[c].retx))
    ELSE S1Next(s1, R0, R0)

\* _next after every _BitSync1 was fed: fv[c] = [s1, out]
NextMerge(bs, fv) ==
    Checked(MergeCvbitnext1([bs EXCEPT !.cbitsync1 = [c \in DOMAIN fv |-> fv[c].s1],
                                       !.err = @ \/ \E c \in DOMAIN fv : fv[c].s1.err],
                            [c \in DOMAIN fv |-> fv[c].out]))

\* _next with sv[c] the _BitSync1 to feed for cell c
NextFeed(bs, dt, u, sv) ==
    NextMerge([bs EXCEPT !.txq = Append(@, [dt |-> dt, u |-> u]),
                         !.err = \/ @
                                 \/ ~AllInSync(bs)
                                 \/ \E c \in DOMAIN sv : \/ sv[c].i_lshift # BaseLShift(bs)
                                                         \/ Len(sv[c].txq) # BaseLen(bs)],
              [c \in DOMAIN sv |-> Fed(sv[c], u, c)])

\* _BitSync._next
BSNext1(bs, dt, u) ==
    NextFeed(bs, dt, u, [c \in DOMAIN bs.cbitsync1 \cup DOMAIN u.cutx |-> S1Of(bs, c)])

\* p with the result r of one more _next
Chained(p, r) == [bs |-> r.bs, out |-> p.out \o r.out]

RECURSIVE BSNextAll(_, _)
BSNextAll(p, frames) ==
    IF frames = <<>> THEN p
    ELSE BSNextAll(Chained(p, BSNext1(p.bs, Head(frames).dt, Head(frames).u)), Tail(frames))

\* _next for what the splitter gave, sp
BSNextSplit(bs, sp) ==
    BSNextAll([bs |-> [bs EXCEPT !.txsplit = sp.txq, !.err = @ \/ sp.err], out |-> <<>>], sp.out)

\* _BitSync.next
BSNext(bs, dt, tx_bytes, u) == BSNextSplit(bs, SplitNext(bs.txsplit, dt, tx_bytes, u))

\* _BitSync.finish after every _BitSync1 finished: fv[c] = [s1, out]
FinishMerge(p, fv) ==
    Chained(p, MergeCvbitnext1([p.bs EXCEPT !.cbitsync1 = [c \in DOMAIN fv |-> fv[c].s1],
                                            !.err = @ \/ \E c \in DOMAIN fv : fv[c].s1.err],
                               [c \in DOMAIN fv |-> fv[c].out]))

\* the end of _BitSync.finish
Reset(p) ==
    [p EXCEPT !.bs.cbitsync1 = EmptyMap,
              !.bs.err = @ \/ ~AllInSync(p.bs) \/ Len(p.bs.txq) # 0]

\* _BitSync.finish after the splitter was flushed into p
FinishAll(p) == Reset(FinishMerge(p, [c \in DOMAIN p.bs.cbitsync1 |-> S1Finish(p.bs.cbitsync1[c])]))

\* _BitSync.finish
BSFinish(bs) ==
    FinishAll(BSNextSplit([bs EXCEPT !.err = @ \/ ~AllInSync(bs)], SplitFinish(bs.txsplit)))


\* ---- _Sampler
\* a report is ue_stats = [utc, ue_list]; ue_list[ue_id] = [cells, erab_list],
\* cells[cell_id] = [tx, retx, bitrate, ri], erab_list[erab_id] = [qci,
\* total_bytes]; stats['cells'][cell_id] gives xl_use_avg

UE0 == [erab_flows |-> EmptyMap, qci_flows |-> EmptyMap, bitsync |-> BitSync0]

\* the _ERAB_Flow that add works with: the tracked one, or a new one
ErabFlow(erab_flows, erab_id, qci) ==
    Get(erab_flows, erab_id, [qci |-> qci, tx_total_bytes |-> 0])

Restarted_QciOnly(ef, erab) == ~(ef.qci = erab.qci)
\* the erab flow is restarted: its qci changed or its tx_total_bytes went down
Restarted(ef, erab) == ~(ef.qci = erab.qci /\ ef.tx_total_bytes <= erab.total_bytes)

\* etx_bytes: what the erab transmitted since the previous report
EtxBytes(erab_flows, erab_id, erab) ==
    erab.total_bytes - (IF Restarted(ErabFlow(erab_flows, erab_id, erab.qci), erab)
                        THEN 0 ELSE ErabFlow(erab_flows, erab_id, erab.qci).tx_total_bytes)

RECURSIVE SumEtx(_, _, _)
SumEtx(erab_flows, erab_list, es) ==
    IF es = {} THEN 0
    ELSE EtxBytes(erab_flows, MinOf(es), erab_list[MinOf(es)])
         + SumEtx(erab_flows, erab_list, es \ {MinOf(es)})

\* the _Utx that add builds for one UE of the report
NonZero(erab_flows, el) == {e \in DOMAIN el : EtxBytes(erab_flows, e, el[e]) # 0}

QtxBytes(erab_flows, el, nz) ==
    [q \in {el[e].qci : e \in nz} |-> SumEtx(erab_flows, el, {e \in nz : el[e].qci = q})]

Utx(ue, ju, cellstats, ri_used) ==
    [qtx_bytes |-> QtxBytes(ue.erab_flows, ju.erab_list, NonZero(ue.erab_flows, ju.erab_list)),
     cutx      |-> [c \in DOMAIN ju.cells |->
                       [tx         |-> RInt(ju.cells[c].tx),
                        retx       |-> RInt(ju.cells[c].retx),
                        bitrate    |-> ju.cells[c].bitrate,
                        rank       |-> IF ri_used THEN ju.cells[c].ri ELSE 1,
                        xl_use_avg |-> cellstats[c],
                        tx_bytes   |-> NoBytes]]]

\* what the loop of add over ue_list gives for one UE: g = [ue, qsamples,
\* err, u, tx_bytes, frames]; bn = [bs, out] is what bitsync gave, upd the
\* flows after _update_qci_flows
AddedUE(ju, u, tx_bytes, init, bn, upd) ==
    [ue       |-> [erab_flows |-> [e \in DOMAIN ju.erab_list |->
                                      [qci |-> ju.erab_list[e].qci,
                                       tx_total_bytes |-> ju.erab_list[e].total_bytes]],
                   qci_flows  |-> upd.qci_flows,
                   bitsync    |-> bn.bs],
     qsamples |-> upd.qsamples,
     err      |-> upd.err,
     u        |-> u,
     tx_bytes |-> tx_bytes,
     frames   |-> IF init THEN <<>> ELSE bn.out]

\* update qci flows, unless init
AddFlows(ue, ju, u, tx_bytes, init, bn, qsamples) ==
    AddedUE(ju, u, tx_bytes, init, bn,
            IF init \/ bn.bs.err
            THEN [qci_flows |-> ue.qci_flows, qsamples |-> qsamples, err |-> bn.bs.err]
            ELSE UpdateQciFlows([qci_flows |-> ue.qci_flows, qsamples |-> qsamples,
                                 err |-> FALSE], bn.out))

\* bitsync <- (dt, tx_bytes, u)
AddBitsync(ue, ju, u, tx_bytes, dt, init, bitsync_used, qsamples) ==
    AddFlows(ue, ju, u, tx_bytes, init,
             IF bitsync_used THEN BSNext(ue.bitsync, dt, tx_bytes, u)
             ELSE [bs |-> ue.bitsync,
                   out |-> <<[dt |-> dt, tx_bytes |-> RInt(tx_bytes), u |-> u]>>],
             qsamples)

\* the body of the loop of add over ue_list, for one UE
AddUE(ue, ju, dt, init, bitsync_used, ri_used, cellstats, qsamples) ==
    AddBitsync(ue, ju, Utx(ue, ju, cellstats, ri_used),
               SumEtx(ue.erab_flows, ju.erab_list, DOMAIN ju.erab_list),
               dt, init, bitsync_used, qsamples)

\* the state of add is acc = [uev, qsamples, err, utxv, framesv]: s.ues, the
\* Samples collected so far, whether an assert failed, and per UE the _Utx
\* that add built and the frames that were given to _update_qci_flows

\* acc after the UE id was handled with g
WithUE(acc, id, g) ==
    [uev      |-> Put(acc.uev, id, g.ue),
     qsamples |-> g.qsamples,
     err      |-> g.err,
     utxv     |-> Put(acc.utxv, id, [tx_bytes |-> g.tx_bytes, u |-> g.u]),
     framesv  |-> Put(acc.framesv, id, g.frames)]

\* the loop of add over ue_list
RECURSIVE AddLive(_, _, _, _, _, _, _, _)
AddLive(todo, acc, ue_list, dt, init, bitsync_used, ri_used, cellstats) ==
    IF todo = {} \/ acc.err THEN acc
    ELSE AddLive(todo \ {MinOf(todo)},
                 WithUE(acc, MinOf(todo),
                        AddUE(Get(acc.uev, MinOf(todo), UE0), ue_list[MinOf(todo)], dt, init,
                              bitsync_used, ri_used, cellstats, acc.qsamples)),
                 ue_list, dt, init, bitsync_used, ri_used, cellstats)

\* acc after the flows of the UE id got the frames that its bitsync flushed
UEFlushed(acc, id, fin, upd) ==
    [acc EXCEPT !.qsamples = upd.qsamples, !.err = upd.err,
                !.framesv = Put(@, id, fin.out),
                !.uev = IF id \in DOMAIN @
                        THEN Put(@, id, [@[id] EXCEPT !.qci_flows = upd.qci_flows,
                                                      !.bitsync = fin.bs])
                        ELSE @]

\* bitnext = ue.bitsync.finish(); ue._update_qci_flows(bitnext, qci_samples)
FlushBitsync(acc, id, ue, fin) ==
    UEFlushed(acc, id, fin,
             IF fin.bs.err
             THEN [qci_flows |-> ue.qci_flows, qsamples |-> acc.qsamples, err |-> TRUE]
             ELSE UpdateQciFlows([qci_flows |-> ue.qci_flows, qsamples |-> acc.qsamples,
                                  err |-> FALSE], fin.out))

\* ue = s.ues.pop(ue_id) and the flush of its bitsync, if it has one
PopUE(acc, id, bitsync_used) ==
    IF bitsync_used
    THEN FlushBitsync([acc EXCEPT !.uev = Del(@, id)], id, acc.uev[id],
                      BSFinish(acc.uev[id].bitsync))
    ELSE [acc EXCEPT !.uev = Del(@, id)]

\* finish non-live ue: the loop of add over the UEs that are not in ue_list
RECURSIVE PopNonLive(_, _, _)
PopNonLive(todo, acc, bitsync_used) ==
    IF todo = {} \/ acc.err THEN acc
    ELSE PopNonLive(todo \ {MinOf(todo)}, PopUE(acc, MinOf(todo), bitsync_used), bitsync_used)

Acc0(uev) ==
    [uev |-> uev, qsamples |-> EmptyMap, err |-> FALSE, utxv |-> EmptyMap, framesv |-> EmptyMap]

\* _Sampler.add
SamplerAdd(uev, ue_list, dt, init, bitsync_used, ri_used, cellstats) ==
    PopNonLive(DOMAIN uev \ DOMAIN ue_list,
               AddLive(DOMAIN ue_list, Acc0(uev), ue_list, dt, init,
                       bitsync_used, ri_used, cellstats),
               bitsync_used)

\* acc after the flows of the UE id were finished, with r = [qci_flows,
\* qsamples, err]
FlowsFinished(acc, id, r) ==
    [acc EXCEPT !.uev = Put(@, id, [@[id] EXCEPT !.qci_flows = EmptyMap]),
                !.qsamples = r.qsamples, !.err = r.err]

\* wrap-up all in-progress flows of the UE id
FinishUEFlows(acc, id) ==
    FlowsFinished(acc, id,
                  FinishFlows(DOMAIN acc.uev[id].qci_flows,
                              [qci_flows |-> acc.uev[id].qci_flows, qsamples |-> acc.qsamples,
                               err |-> acc.err]))

\* the body of the loop of finish, for one UE
FinishUE(acc, id, bitsync_used) ==
    FinishUEFlows(IF bitsync_used
                  THEN FlushBitsync(acc, id, acc.uev[id], BSFinish(acc.uev[id].bitsync))
                  ELSE acc,
                  id)

\* _Sampler.finish, for the UEs of todo
RECURSIVE SamplerFinish(_, _, _)
SamplerFinish(todo, acc, bitsync_used) ==
    IF todo = {} \/ acc.err THEN acc
    ELSE SamplerFinish(todo \ {MinOf(todo)}, FinishUE(acc, MinOf(todo), bitsync_used),
                       bitsync_used)


\* ---- the reports fed to the sampler

\* bounds of the sampler model: the time of the last report, in tti
MaxT == 30

UEIds    == {17}
CellIds  == {1}
ErabIds  == {23}
DtValues == {10}
RiValues == {2}
UseAvgs  == {<<1, 10>>, <<9, 10>>}
\* <<tx, retx>> of a cell in one report
TxValues == {<<0, 0>>, <<2, 1>>, <<10, 0>>}

MapsOn(Ids, Vals) == UNION {[S -> Vals] : S \in SUBSET Ids}

CellReports(ri) == {[tx |-> x[1], retx |-> x[2], bitrate |-> 1000 * x[1], ri |-> ri] :
                        x \in TxValues}
\* [qci, total_bytes] of an erab in one report
ErabReports     == {[qci |-> 4, total_bytes |-> 1], [qci |-> 4, total_bytes |-> 2],
                    [qci |-> 9, total_bytes |-> 1]}
UEReports(ri)   == [cells     : UNION {[S -> CellReports(ri)] : S \in SUBSET CellIds \ {{}}},
                    erab_list : MapsOn(ErabIds, ErabReports)]
UELists(ri)     == MapsOn(UEIds, UEReports(ri))

RECURSIVE SumTxBytes(_, _)
SumTxBytes(utxv, ids) ==
    IF ids = {} THEN 0
    ELSE utxv[MinOf(ids)].tx_bytes + SumTxBytes(utxv, ids \ {MinOf(ids)})

RECURSIVE SeqBytes(_)
SeqBytes(samples) == IF samples = <<>> THEN 0 ELSE Head(samples).tx_bytes + SeqBytes(Tail(samples))

RECURSIVE SampleBytes(_, _)
SampleBytes(qsamples, qs) ==
    IF qs = {} THEN 0
    ELSE SeqBytes(qsamples[MinOf(qs)]) + SampleBytes(qsamples, qs \ {MinOf(qs)})

\* the sampler after its constructor ran add with r = [uev, qsamples, err,
\* utxv, framesv]
Constructed(r) ==
    /\ ues = r.uev
    /\ qci_samples = r.qsamples
    /\ serr = (r.err \/ r.qsamples # EmptyMap
                     \/ \E id \in DOMAIN r.uev : r.uev[id].qci_flows # EmptyMap)
    /\ utx = r.utxv

\* _Sampler.__init__ with a first report: s.t = -1, in seconds, then
\* add(ue_stats0, stats0, init=True).  Sampler makes 'dl' with use_bitsync
\* and use_ri and 'ul' without them
SamplerInit ==
    /\ use_bitsync \in BOOLEAN
    /\ use_ri = use_bitsync
    /\ radio \in [ri : RiValues, xl_use_avg : UseAvgs]
    /\ s_t = 0
    /\ ue_stats \in [utc : {0}, ue_list : UELists(radio.ri)]
    /\ Constructed(SamplerAdd(EmptyMap, ue_stats.ue_list, 0 - (-1000), TRUE, use_bitsync,
                              use_ri, [c \in CellIds |-> radio.xl_use_avg]))
    /\ tx_after = 0
    /\ tx_out = 0

\* the sampler after add gave r
AddDone(r) ==
    /\ ues' = r.uev
    /\ qci_samples' = r.qsamples
    /\ serr' = r.err
    /\ utx' = r.utxv
    /\ tx_after' = tx_after + SumTxBytes(r.utxv, DOMAIN r.utxv)
    /\ tx_out' = tx_out + SampleBytes(r.qsamples, DOMAIN r.qsamples)

\* _Sampler.add(ue_stats, stats)
Add ==
    /\ ~serr
    /\ \E dt \in DtValues, ue_list \in UELists(radio.ri) :
        /\ s_t + dt <= MaxT
        /\ s_t' = s_t + dt
        /\ ue_stats' = [utc |-> s_t + dt, ue_list |-> ue_list]
        /\ AddDone(SamplerAdd(ues, ue_list, dt, FALSE, use_bitsync, use_ri,
                            [c \in CellIds |-> radio.xl_use_avg]))
    /\ UNCHANGED <<use_bitsync, use_ri, radio>>
    /\ SamplerOnly

\* the sampler after finish gave r
FinishDone(r) ==
    /\ ues' = r.uev
    /\ qci_samples' = r.qsamples
    /\ serr' = r.err
    /\ tx_out' = tx_out + SampleBytes(r.qsamples, DOMAIN r.qsamples)

\* _Sampler.finish()
Finish ==
    /\ ~serr
    /\ FinishDone(SamplerFinish(DOMAIN ues, Acc0(ues), use_bitsync))
    /\ utx' = EmptyMap
    /\ UNCHANGED <<use_bitsync, use_ri, radio, s_t, ue_stats, tx_after>>
    /\ SamplerOnly

SamplerNext == Add \/ Finish

SpecSamplerInit ==
    SamplerInit /\ ConnIdle /\ NormIdle /\ XlIdle /\ ReaderIdle /\ FileIdle /\ RRIdle
    /\ BitSyncIdle
    /\ KpiIdle
    /\ LmIdle
    /\ TmIdle
    /\ CnIdle
SpecSampler == SpecSamplerInit /\ [][SamplerNext]_vars

\* ---- the Samples the sampler returns

\* every Sample of what the last add() or finish() returned
ReturnedSamples == UNION {{qci_samples[q][k] : k \in 1..Len(qci_samples[q])} :
                          q \in DOMAIN qci_samples}

\* C16: every Sample that add() or finish() returns has tx_bytes > 0,
\* tx_time > 0, tx_time_err >= 0 and tx_time - tx_time_err > 0, and no assert
\* of the sampler fails on the way (the reports have a positive dt,
\* non-negative counters, rank >= 1 and at least one cell for every UE).
C16_SamplesArePositive ==
    /\ ~serr
    /\ \A s \in ReturnedSamples : SampleOK(s)

\* a Sample was returned whose time is known only up to an error, and one
\* that went through BitSync
C16_Witness ==
    /\ use_bitsync
    /\ \E s \in ReturnedSamples : SampleOK(s) /\ s.tx_time_err # R0

\* the bursts in progress of UE id: the QCIs whose flow has collected something
InProgress(id) == {q \in DOMAIN ues[id].qci_flows : ues[id].qci_flows[q].tx_time # R0}

\* C17: when a UE that the sampler knows is absent from the report given to
\* add(), that add() returns, for every burst in progress of the UE, a Sample
\* of the burst's QCI that carries at least the bytes the burst had collected;
\* and when no UE is left, no byte given to the sampler after the initial
\* report is missing from the Samples returned so far.
C17_AbsentUEFinished ==
    [][(s_t' # s_t) =>
          /\ \A id \in DOMAIN ues \ DOMAIN ue_stats'.ue_list : \A q \in InProgress(id) :
                /\ q \in DOMAIN qci_samples'
                /\ \E k \in 1..Len(qci_samples'[q]) :
                      qci_samples'[q][k].tx_bytes >= ues[id].qci_flows[q].tx_bytes
          /\ (ues # EmptyMap /\ ue_stats'.ue_list = EmptyMap) => tx_out' >= tx_after']_vars

\* C18: the totals that the E-RABs have in the initial report are in no
\* Sample: the bytes of all the Samples returned so far never exceed the bytes
\* that the E-RABs transmitted after the initial report.
C18_InitialTotalsNotCounted == tx_out <= tx_after

\* ---- the E-RAB baseline, told from the reports alone

\* E-RAB e of UE id is in report rep
Reported(rep, id, e) ==
    /\ id \in DOMAIN rep.ue_list
    /\ e \in DOMAIN rep.ue_list[id].erab_list

\* the baseline of the E-RAB starts from zero at report new that follows
\* report old: the E-RAB was absent from old, or has another QCI, or a lower total
BaselineReset(old, new, id, e) ==
    \/ ~Reported(old, id, e)
    \/ old.ue_list[id].erab_list[e].qci # new.ue_list[id].erab_list[e].qci
    \/ new.ue_list[id].erab_list[e].total_bytes < old.ue_list[id].erab_list[e].total_bytes

\* the bytes to attribute to the E-RAB for the frame of report new
Attributed(old, new, id, e) ==
    IF BaselineReset(old, new, id, e)
    THEN new.ue_list[id].erab_list[e].total_bytes
    ELSE new.ue_list[id].erab_list[e].total_bytes - old.ue_list[id].erab_list[e].total_bytes

RECURSIVE SumAttributed(_, _, _, _)
SumAttributed(old, new, id, es) ==
    IF es = {} THEN 0
    ELSE Attributed(old, new, id, MinOf(es)) + SumAttributed(old, new, id, es \ {MinOf(es)})

\* the E-RABs of UE id in report new that have QCI q
ErabsOf(new, id, q) ==
    {e \in DOMAIN new.ue_list[id].erab_list : new.ue_list[id].erab_list[e].qci = q}

\* C19: in the frame that add() builds for a UE, every E-RAB counts with its
\* total minus the total of the previous report, and with its whole total
\* when it was absent from the previous report, has another QCI than there or
\* a lower total; the bytes are credited to the QCI of the new report, and no
\* E-RAB counts with a negative number of bytes.
C19_BaselineReset ==
    [][(s_t' # s_t) => \A id \in DOMAIN ue_stats'.ue_list :
          /\ id \in DOMAIN utx'
          /\ utx'[id].tx_bytes =
                SumAttributed(ue_stats, ue_stats', id, DOMAIN ue_stats'.ue_list[id].erab_list)
          /\ \A q \in {4, 9} \cup DOMAIN utx'[id].u.qtx_bytes :
                Get(utx'[id].u.qtx_bytes, q, 0) =
                    SumAttributed(ue_stats, ue_stats', id, ErabsOf(ue_stats', id, q))
          /\ \A q \in DOMAIN utx'[id].u.qtx_bytes : utx'[id].u.qtx_bytes[q] > 0]_vars

\* an E-RAB that had collected bytes on QCI 4 came with QCI 9 and its whole
\* total went to QCI 9, the burst of QCI 4 being returned
C19_Witness ==
    /\ ~use_bitsync
    /\ s_t = 20
    /\ 17 \in DOMAIN utx /\ utx[17].u.qtx_bytes = (9 :> 1) /\ utx[17].tx_bytes = 1
    /\ ues[17].erab_flows[23] = [qci |-> 9, tx_total_bytes |-> 1]
    /\ 4 \in DOMAIN qci_samples

\* ---- the per-QCI accumulator, told from the frame given to it

\* the flow of QCI q that UE id had before the frame: a new one if it had none
FlowBefore(id, q) ==
    IF id \in DOMAIN ues THEN Get(ues[id].qci_flows, q, QCIFlow0) ELSE QCIFlow0

\* the flows that UE id had before the frame
FlowsBefore(id) == IF id \in DOMAIN ues THEN DOMAIN ues[id].qci_flows ELSE {}

\* flow qf with b bytes sent over lo..hi tti added to it
Accumulated(qf, b, lo, hi) ==
    [tx_bytes    |-> qf.tx_bytes + b,
     tx_time     |-> RAdd(qf.tx_time, RDiv(RAdd(lo, hi), RInt(2))),
     tx_time_err |-> RAdd(qf.tx_time_err, RDiv(RSub(hi, lo), RInt(2)))]

\* what the accumulator of QCI q has to do with b bytes sent over lo..hi tti
\* of a frame of dt tti: add them; end the burst with one Sample of the totals
\* if the burst was in progress and hi < 0.9*dt, else keep it open
UpdateAsStated(id, q, b, lo, hi, dt) ==
    IF FlowBefore(id, q).tx_time # R0 /\ RLt(hi, RMul(<<9, 10>>, RInt(dt)))
    THEN /\ ues'[id].qci_flows[q] = QCIFlow0
         /\ q \in DOMAIN qci_samples'
         /\ qci_samples'[q] = <<Accumulated(FlowBefore(id, q), b, lo, hi)>>
    ELSE /\ ues'[id].qci_flows[q] = Accumulated(FlowBefore(id, q), b, lo, hi)
         /\ q \notin DOMAIN qci_samples'

\* what has to happen to the flow of QCI q for which the frame has no bytes
EndedAsStated(id, q) ==
    /\ q \notin DOMAIN ues'[id].qci_flows
    /\ IF FlowBefore(id, q).tx_time # R0
       THEN q \in DOMAIN qci_samples' /\ qci_samples'[q] = <<FlowBefore(id, q)>>
       ELSE q \notin DOMAIN qci_samples'

\* the accumulators of UE id handle frame fr, whose transmission took
\* lo..hi tti, as stated
FrameAsStated(id, fr, lo, hi, dt) ==
    /\ DOMAIN ues'[id].qci_flows = DOMAIN fr.u.qtx_bytes
    /\ \A q \in DOMAIN fr.u.qtx_bytes :
          UpdateAsStated(id, q, fr.u.qtx_bytes[q],
                         QtxLo(fr.u.qtx_bytes[q], lo, hi, RInt(fr.tx_bytes)), hi, dt)
    /\ \A q \in FlowsBefore(id) \ DOMAIN fr.u.qtx_bytes : EndedAsStated(id, q)

\* C20: without BitSync, where the frame of add() goes to the accumulators
\* right away: the bytes of a QCI are added to its accumulator; an update
\* that continues a burst and has tx_hi < 0.9*dt/tti ends the burst with one
\* Sample of the accumulated totals and resets the accumulator; one with
\* tx_hi >= 0.9*dt/tti keeps the burst open; the first update of a burst never
\* ends it; a frame of the UE without bytes for the QCI ends the burst.
C20_BurstEndsOnSmallUpdate ==
    [][(s_t' # s_t /\ ~use_bitsync) => \A id \in DOMAIN ue_stats'.ue_list :
          FrameAsStated(id, utx'[id],
                        TxLo(utx'[id].u.cutx, DOMAIN utx'[id].u.cutx, RInt(s_t' - s_t)),
                        TxHi(utx'[id].u.cutx, RInt(s_t' - s_t)), s_t' - s_t)]_vars

\* two small adjacent frames of one byte each gave one Sample of two bytes
\* and 3 + 3 tti, and the accumulator is reset
C20_Witness ==
    /\ ~use_bitsync
    /\ s_t = 20
    /\ ue_stats.ue_list # EmptyMap
    /\ tx_after = 2
    /\ ues[17].qci_flows = (4 :> QCIFlow0)
    /\ qci_samples = (4 :> <<[tx_bytes |-> 2, tx_time |-> RInt(6), tx_time_err |-> R0]>>)

-----------------------------------------------------------------------------
(***************************************************************************)
(* Part 4b. _BitSync1 and _BitSync on their own, driven as test_BitSync1   *)
(* and test_BitSync2 drive them: an input S goes through next(), and then  *)
(* either finish() is called, or ZeroTail frames without transmission      *)
(* follow and then finish().  Both runs are the same up to the end of S,   *)
(* so one object is kept: FinishS computes what finish() would give after  *)
(* S and leaves the object as it is for the zero frames.                   *)
(***************************************************************************)

\* the length of S, and the bits of mantissa of a float when the arithmetic
\* rounds (53 in the source)
MaxS == 3
FloatBits == 8
\* the number of (0,0) frames that the tests append
ZeroTail == 10

\* tx_bytes and #tx of the frames of S
BsBytes == {0, 3, 7}
BsTx    == {0, 2, 5}

\* UCtx(tx, bitrate, rank, xl_use_avg) of the tests
TUCtx(tx, bitrate, rank, xl_use_avg) ==
    [tx |-> RInt(tx), retx |-> R0, bitrate |-> bitrate, rank |-> rank,
     xl_use_avg |-> xl_use_avg, tx_bytes |-> NoBytes]

\* Utx2 of test_BitSync2: a transmission on the cells cs, up to two
Utx2(tx1, tx2, cs) ==
    [qtx_bytes |-> EmptyMap,
     cutx      |-> [c \in cs |->
                       IF c = 1 THEN TUCtx(tx1, 8 * tx1, 1, <<1, 10>>)
                                ELSE TUCtx(tx2, 8 * tx2, 2, <<2, 10>>)]]

\* the frames S is made of, for a _BitSync1 and for a _BitSync
Frames1 == {<<RInt(b), RInt(x)>> : b \in BsBytes, x \in BsTx}
Frames2 == {[tx_bytes |-> b, u |-> Utx2(x[1], x[2], x[3])] :
                b \in {0, 7}, x \in {0, 2} \X {0, 5} \X SUBSET {1, 2}}

\* the frame without transmission: (0,0), and (0, 0,0, 0,0) with both cells
Zero1 == <<R0, R0>>
Zero2 == [tx_bytes |-> 0, u |-> Utx2(0, 0, {1, 2})]

\* what the tests look at in a frame that a _BitSync gave: (tx_bytes, tx1, tx2),
\* an absent cell giving <<>> (None)
Tx2Of(fr, c) == IF c \in DOMAIN fr.u.cutx THEN fr.u.cutx[c].tx ELSE <<>>
B2Iter(out)  == [i \in 1..Len(out) |-> <<out[i].tx_bytes, Tx2Of(out[i], 1), Tx2Of(out[i], 2)>>]

\* [q, out] of a call to the object: the object after it and what it gave
Of1(p) == [q |-> p.s1, out |-> p.out]
Of2(p) == [q |-> p.bs, out |-> B2Iter(p.out)]

\* next(frame) and finish() of the object q
BsNextOf(q, fr) ==
    IF bs_multi THEN Of2(BSNext(q, 10, fr.tx_bytes, fr.u)) ELSE Of1(S1Next(q, fr[1], fr[2]))
BsFinishOf(q) == IF bs_multi THEN Of2(BSFinish(q)) ELSE Of1(S1Finish(q))

BitSyncInit ==
    /\ float_bits \in {0, FloatBits}
    /\ bs_multi \in BOOLEAN
    /\ bsq = IF bs_multi THEN BitSync0 ELSE BitSync1(0)
    /\ bs_out = <<>>
    /\ bs_fed = 0
    /\ bs_in = <<>>
    /\ bs_tail = 0
    /\ out_s = [out |-> <<>>, err |-> FALSE]
    /\ bs_phase = "feed"

\* the object after the call that gave r
Called(r) ==
    /\ bsq' = r.q
    /\ bs_out' = bs_out \o r.out

\* the frame fr was given
WasFed(fr) == bs_in' = IF bs_multi THEN bs_in ELSE Append(bs_in, fr)

\* next() for one more frame of S
FeedS ==
    /\ bs_phase = "feed"
    /\ bs_fed < MaxS
    /\ \E fr \in (IF bs_multi THEN Frames2 ELSE Frames1) : Called(BsNextOf(bsq, fr)) /\ WasFed(fr)
    /\ bs_fed' = bs_fed + 1
    /\ UNCHANGED <<float_bits, bs_multi, bs_tail, out_s, bs_phase>>
    /\ BitSyncOnly

\* what S alone gave, r being what finish() gives now
GaveAlone(r) == out_s' = [out |-> bs_out \o r.out, err |-> r.q.err]

\* S is complete: the run of S alone ends with finish()
FinishS ==
    /\ bs_phase = "feed"
    /\ GaveAlone(BsFinishOf(bsq))
    /\ bs_phase' = "tail"
    /\ UNCHANGED <<float_bits, bs_multi, bsq, bs_out, bs_fed, bs_in, bs_tail>>
    /\ BitSyncOnly

\* next() for one more frame without transmission
FeedZero ==
    /\ bs_phase = "tail"
    /\ bs_tail < ZeroTail
    /\ Called(BsNextOf(bsq, IF bs_multi THEN Zero2 ELSE Zero1))
    /\ WasFed(Zero1)
    /\ bs_tail' = bs_tail + 1
    /\ UNCHANGED <<float_bits, bs_multi, bs_fed, out_s, bs_phase>>
    /\ BitSyncOnly

\* finish() after the frames without transmission
FinishTail ==
    /\ bs_phase = "tail"
    /\ bs_tail = ZeroTail
    /\ Called(BsFinishOf(bsq))
    /\ bs_phase' = "done"
    /\ UNCHANGED <<float_bits, bs_multi, bs_fed, bs_in, bs_tail, out_s>>
    /\ BitSyncOnly

BitSyncNext == FeedS \/ FinishS \/ FeedZero \/ FinishTail

SpecBitSyncInit ==
    BitSyncInit /\ ConnIdle /\ NormIdle /\ XlIdle /\ ReaderIdle /\ FileIdle /\ RRIdle
    /\ SamplerIdle
    /\ KpiIdle
    /\ LmIdle
    /\ TmIdle
    /\ CnIdle
SpecBitSync == SpecBitSyncInit /\ [][BitSyncNext]_vars

\* what the frames without transmission are expected to add to the output
ZeroOut == IF bs_multi THEN <<R0, R0, R0>> ELSE Zero1

\* C21: S followed by ZeroTail frames without transmission and finish() gives
\* what S followed by finish() gives, followed by ZeroTail frames without
\* transmission, and no assert fails; for a _BitSync1 and for a _BitSync.
C21_ZeroTailAddsZeros ==
    bs_phase = "done" =>
        /\ ~bsq.err /\ ~out_s.err
        /\ bs_out = out_s.out \o [i \in 1..ZeroTail |-> ZeroOut]

\* C33: in the multi-cell _BitSync, after every call, the _BitSync1 of every
\* cell has the i_txq of the _BitSync and a queue as long as the queue of
\* the _BitSync, all of them have the same i_lshift, and no assert failed:
\* neither the one of _merge_cvbitnext1 that every _BitSync1 gave the same
\* number of frames in the step, nor those on a _BitSync1 that was prefed
\* for a cell that appeared.
C33_CellQueuesInLockStep ==
    bs_multi =>
        /\ ~bsq.err
        /\ \A c \in DOMAIN bsq.cbitsync1 :
            /\ bsq.cbitsync1[c].i_txq = bsq.i_txq
            /\ Len(bsq.cbitsync1[c].txq) = Len(bsq.txq)
            /\ \A d \in DOMAIN bsq.cbitsync1 :
                bsq.cbitsync1[d].i_lshift = bsq.cbitsync1[c].i_lshift

\* the exact sum of the #tx of the frames v of a _BitSync1
RECURSIVE SumTx(_)
SumTx(v) == IF v = <<>> THEN R0 ELSE RAdd(Head(v)[2], SumTx(Tail(v)))

\* out has one frame for every frame of in, in the order of in and with its
\* tx_bytes, and no #tx of out is negative
FrameForFrame(in, out) ==
    /\ Len(out) = Len(in)
    /\ \A i \in 1..Len(in) : out[i][1] = in[i][1] /\ RLe(R0, out[i][2])

\* the sums of #tx of in and out are equal
SameSumTx(in, out) == RLe(SumTx(in), SumTx(out)) /\ RLe(SumTx(out), SumTx(in))

\* the sums of #tx of in and out differ by not more than the 2^(bits - 3)-th
\* part of the sum of in
CloseSumTx(in, out, bits) ==
    /\ RLe(RMul(RInt(2 ^ (bits - 3)), RSub(SumTx(out), SumTx(in))), SumTx(in))
    /\ RLe(RMul(RInt(2 ^ (bits - 3)), RSub(SumTx(in), SumTx(out))), SumTx(in))

\* the input and the output of the runs of the _BitSync1 that ended with
\* finish(): S alone, and S with the frames without transmission
FinishedRuns ==
    IF bs_multi \/ bs_phase \notin {"tail", "done"} THEN {}
    ELSE {[in |-> SubSeq(bs_in, 1, bs_fed), out |-> out_s.out, err |-> out_s.err]}
         \cup (IF bs_phase = "done" THEN {[in |-> bs_in, out |-> bs_out, err |-> bsq.err]}
                                     ELSE {})

\* C34: what the next() calls of a _BitSync1 and then finish() give is one
\* frame for every frame of the input, in the order of the input and with its
\* tx_bytes, no #tx is negative and no assert fails; the sum of #tx of the
\* output is the sum of #tx of the input when the arithmetic is exact, and
\* is within its rounding when the arithmetic is the one of floats.
C34_FramesKeptSumRounded ==
    \A r \in FinishedRuns :
        /\ ~r.err
        /\ FrameForFrame(r.in, r.out)
        /\ IF float_bits = 0 THEN SameSumTx(r.in, r.out)
                              ELSE CloseSumTx(r.in, r.out, float_bits)

\* C34 as stated: the sum of #tx of the output is the sum of #tx of the input
C34_SumTxKept ==
    \A r \in FinishedRuns : ~r.err /\ FrameForFrame(r.in, r.out) /\ SameSumTx(r.in, r.out)

\* three frames went through a _BitSync1 with exact arithmetic, #tx moved
\* from the second frame to the first, and finish() gave the last two
C34_Witness ==
    /\ ~bs_multi /\ float_bits = 0 /\ bs_phase = "tail" /\ bs_tail = 0 /\ bs_fed = MaxS
    /\ Len(out_s.out) = MaxS
    /\ RLt(bs_in[1][2], out_s.out[1][2])
    /\ RLt(out_s.out[2][2], bs_in[2][2])

-----------------------------------------------------------------------------
(***************************************************************************)
(* Part 5. kpi.Measurement, kpi.MeasurementLog and kpi.Calc.               *)
(*                                                                         *)
(* A Measurement is a function from field names to values.  Of the fields  *)
(* of Measurement._dtype the model keeps X.Tstart and X.dT (X.δT) and the  *)
(* four fini/init pairs of counters that Calc.erab_accessibility reads;    *)
(* the .QCI arrays have nqci entries.  Times are whole numbers; a sum or a *)
(* difference of times is rounded to the TimeBits bits that a Ttime keeps. *)
(***************************************************************************)

\* bounds of the kpi model
MaxLog == 2         \* Measurements that the log holds at most
MaxTau == 3         \* the latest X.Tstart given to append
nqci   == 1         \* QCIs (source: 256)
TimeBits == 3       \* bits of the mantissa of Ttime (source: np.float64, 53)

\* NA(dtype): the minimum of np.int32 for the counters.  The NA of the times
\* is NaN; it is never compared or added, and the model uses the same value.
NA == -2147483647 - 1
isNA(value) == value = NA

QCIs == 0 .. nqci - 1

\* the counters come in pairs, <name>Succ<suffix> counting the results (fini)
\* of the events that <name>Att<suffix> counts (init)
Stems == {<<"RRC.ConnEstab", ".sum">>, <<"S1SIG.ConnEstab", "">>}
    \cup {<<"ERAB.EstabInit", "Nbr.sum">>, <<"ERAB.EstabAdd", "Nbr.sum">>}
    \cup {<<"ERAB.EstabInit", "Nbr." \o ToString(q)>> : q \in QCIs}
    \cup {<<"ERAB.EstabAdd", "Nbr." \o ToString(q)>> : q \in QCIs}
SuccField(stem) == stem[1] \o "Succ" \o stem[2]
\* field.replace("Succ", "Att")
AttField(stem)  == stem[1] \o "Att" \o stem[2]

TimeFields == {"X.Tstart", "X.dT"}
Fields == TimeFields \cup {SuccField(stem) : stem \in Stems}
                     \cup {AttField(stem) : stem \in Stems}

\* Measurement(): every field is NA
Measurement == [field \in Fields |-> NA]

\* Measurement._check_valid: the problems it collects in _badv
NAProblems(m) == {<<"= NA", f>> : f \in {g \in TimeFields : isNA(m[g])}}
NegativeProblems(m) == {<<"< 0", f>> : f \in {g \in Fields : ~isNA(m[g]) /\ m[g] < 0}}
FiniGtInit_Never(m, stem) == FALSE
FiniGtInit(m, stem) ==
    /\ ~isNA(m[SuccField(stem)])
    /\ ~isNA(m[AttField(stem)])
    /\ ~(m[SuccField(stem)] <= m[AttField(stem)])
FiniProblems(m) ==
    {<<"fini > init", SuccField(stem)>> : stem \in {st \in Stems : FiniGtInit(m, st)}}
BadV(m) == NAProblems(m) \cup NegativeProblems(m) \cup FiniProblems(m)

\* Ttime arithmetic: the nearest time that Ttime holds, ties to even
RECURSIVE TimeExp(_, _)
TimeExp(n, e) == IF n < Pow2(TimeBits + e) THEN e ELSE TimeExp(n, e + 1)
TimeRounded(n, e) ==
    IF 2 * (n % Pow2(e)) > Pow2(e) \/ (2 * (n % Pow2(e)) = Pow2(e) /\ (n \div Pow2(e)) % 2 = 1)
    THEN (n \div Pow2(e) + 1) * Pow2(e)
    ELSE (n \div Pow2(e)) * Pow2(e)
TimeFl(n) == IF n <= 0 THEN n ELSE TimeRounded(n, TimeExp(n, 0))
TAdd(a, b) == TimeFl(a + b)
TSub(a, b) == TimeFl(a - b)

\* MeasurementLog.append: the two checks against the last Measurement m_
TstartGrows_Always(m_, m) == TRUE
TstartGrows(m_, m) == m_["X.Tstart"] < m["X.Tstart"]
StartsAfterEnd_Always(m_, m) == TRUE
StartsAfterEnd(m_, m) == TAdd(m_["X.Tstart"], m_["X.dT"]) <= m["X.Tstart"]

\* MeasurementLog.append: the new _data, and the AssertionError it raised
AppendOf(data, m) ==
    IF BadV(m) # {} THEN [data |-> data, raised |-> "invalid Measurement data"]
    ELSE IF Len(data) > 0 /\ ~TstartGrows(data[Len(data)], m)
        THEN [data |-> data, raised |-> ".Tstart not increasing"]
    ELSE IF Len(data) > 0 /\ ~StartsAfterEnd(data[Len(data)], m)
        THEN [data |-> data, raised |-> ".Tstart overlaps with previous measurement"]
    ELSE [data |-> Append(data, m), raised |-> ""]

\* MeasurementLog.forget_past: the index of the first Measurement it keeps
RECURSIVE ForgetUpto(_, _, _)
ForgetUpto(data, Tcut, i) ==
    IF i <= Len(data) /\ ~(Tcut < data[i]["X.Tstart"]) THEN ForgetUpto(data, Tcut, i + 1)
    ELSE i
ForgetOf(data, Tcut) == SubSeq(data, ForgetUpto(data, Tcut, 1), Len(data))

\* ---- the log on its own: specification SpecMLog ----

\* the values that the fields of a Measurement given to append have: the
\* times, and one fini/init pair <<init, fini>> of one of these stems
TimeVals  == {NA, -1} \cup 0..MaxTau
DeltaVals == {NA, -1, 0, 2}
PairVals  == {<<NA, NA>>, <<1, 0>>, <<0, 1>>, <<-1, NA>>, <<NA, 1>>}
MLogStems == {<<"RRC.ConnEstab", ".sum">>, <<"S1SIG.ConnEstab", "">>,
              <<"ERAB.EstabInit", "Nbr.0">>}

\* the Measurement with the given times and one fini/init pair
M1(tstart, dt, stem, pv) ==
    [Measurement EXCEPT !["X.Tstart"] = tstart, !["X.dT"] = dt,
                        ![AttField(stem)] = pv[1], ![SuccField(stem)] = pv[2]]

AnyMeasurements ==
    {M1(tstart, dt, stem, pv) :
        tstart \in TimeVals, dt \in DeltaVals, stem \in MLogStems, pv \in PairVals}
Tcuts == -1 .. MaxTau

MLogInit ==
    /\ mlog = <<>> /\ mlog_raised = "" /\ kpi_phase = "log"
    /\ calc = <<>> /\ calc_req = <<>> /\ kpi_out = <<>>

KpiOnly == UNCHANGED <<connVars, normVars, xlVars, readerVars, fileVars, rrVars,
                       samplerVars, bitsyncVars,
        lmVars,
        tmVars,
        cnVars>>

\* mlog.append(m)
AppendM(m) ==
    /\ kpi_phase = "log"
    /\ Len(AppendOf(mlog, m).data) <= MaxLog
    /\ mlog' = AppendOf(mlog, m).data
    /\ mlog_raised' = AppendOf(mlog, m).raised
    /\ UNCHANGED <<calc, calc_req, kpi_out, kpi_phase>>
    /\ KpiOnly

MLogAppend == \E m \in AnyMeasurements : AppendM(m)

\* mlog.forget_past(Tcut)
ForgetPast ==
    /\ kpi_phase = "log"
    /\ \E Tcut \in Tcuts :
        /\ mlog' = ForgetOf(mlog, Tcut)
        /\ mlog_raised' = ""
    /\ UNCHANGED <<calc, calc_req, kpi_out, kpi_phase>>
    /\ KpiOnly

MLogNext == MLogAppend \/ ForgetPast

SpecMLogInit ==
    MLogInit /\ ConnIdle /\ NormIdle /\ XlIdle /\ ReaderIdle /\ FileIdle /\ RRIdle
    /\ SamplerIdle /\ BitSyncIdle
    /\ LmIdle
    /\ TmIdle
    /\ CnIdle
SpecMLog == SpecMLogInit /\ [][MLogNext]_vars

\* C22: after any sequence of append and forget_past calls, failed appends
\* included, X.Tstart of the records of the log grows strictly and adjacent
\* records do not overlap: Tstart[i-1] + dT[i-1] <= Tstart[i] for every i
C22_LogOrdered ==
    \A i \in 2..Len(mlog) :
        /\ mlog[i - 1]["X.Tstart"] < mlog[i]["X.Tstart"]
        /\ mlog[i - 1]["X.Tstart"] + mlog[i - 1]["X.dT"] <= mlog[i]["X.Tstart"]

\* a log of two records after an append that failed
C22_Witness == Len(mlog) = 2 /\ mlog_raised # ""

\* the last record of a log that is not empty
LastOf(data) == data[Len(data)]

\* what C23 lists: a time is NA, a value that is not NA is negative (the times
\* are values of the record as the counters are), the fini of a pair is above
\* its init, or the record does not start after the start and at or after the
\* end of the last record of the log
RejectedAsStated(data, m) ==
    \/ m["X.Tstart"] = NA
    \/ m["X.dT"] = NA
    \/ \E f \in Fields : m[f] # NA /\ m[f] < 0
    \/ \E stem \in Stems :
        /\ m[SuccField(stem)] # NA /\ m[AttField(stem)] # NA
        /\ m[SuccField(stem)] > m[AttField(stem)]
    \/ /\ Len(data) > 0
       /\ \/ m["X.Tstart"] <= LastOf(data)["X.Tstart"]
          \/ m["X.Tstart"] < LastOf(data)["X.Tstart"] + LastOf(data)["X.dT"]

C24_StartAtEndFails ==
    \A m \in AnyMeasurements :
        (/\ Len(mlog) > 0
         /\ m["X.Tstart"] # NA
         /\ m["X.Tstart"] <= LastOf(mlog)["X.Tstart"] + LastOf(mlog)["X.dT"])
            => AppendOf(mlog, m).raised # ""

\* C24, amended: appending a record whose X.Tstart is less than Tstart + dT of
\* the last record of the log, or not above the Tstart of that record, fails;
\* a record that is valid by itself and starts after the start of the last
\* record, exactly at its end or later, is added
C24_StartBeforeEndFails ==
    \A m \in AnyMeasurements :
        (Len(mlog) > 0 /\ m["X.Tstart"] # NA) =>
            /\ (\/ m["X.Tstart"] < LastOf(mlog)["X.Tstart"] + LastOf(mlog)["X.dT"]
                \/ m["X.Tstart"] <= LastOf(mlog)["X.Tstart"])
                    => AppendOf(mlog, m).raised # ""
            /\ (/\ BadV(m) = {}
                /\ m["X.Tstart"] > LastOf(mlog)["X.Tstart"]
                /\ m["X.Tstart"] >= LastOf(mlog)["X.Tstart"] + LastOf(mlog)["X.dT"])
                    => AppendOf(mlog, m).data = mlog \o <<m>>

\* the second record of the log starts exactly where the first one, which is
\* not empty, ends, and the append after it failed for an overlap
C24_Witness ==
    /\ Len(mlog) = 2
    /\ mlog[1]["X.dT"] > 0
    /\ mlog[1]["X.Tstart"] + mlog[1]["X.dT"] = mlog[2]["X.Tstart"]
    /\ mlog_raised = ".Tstart overlaps with previous measurement"

\* ---- Calc over a log: specification SpecCalc ----

\* Calc.__init__: its two searches.  The index of the first record that ends
\* after tau_lo, Len(data) + 1 if none does
EndsAfter_OrAt(m, tau_lo) == tau_lo <= m["X.Tstart"] + m["X.dT"]
EndsAfter(m, tau_lo) == tau_lo < m["X.Tstart"] + m["X.dT"]
RECURSIVE FirstEndingAfter(_, _, _)
FirstEndingAfter(data, tau_lo, i) ==
    IF i <= Len(data) /\ ~EndsAfter(data[i], tau_lo)
    THEN FirstEndingAfter(data, tau_lo, i + 1) ELSE i
\* the index of the first record from j on that starts at tau_hi or later
RECURSIVE FirstStartingFrom(_, _, _)
FirstStartingFrom(data, tau_hi, j) ==
    IF j <= Len(data) /\ ~(tau_hi <= data[j]["X.Tstart"])
    THEN FirstStartingFrom(data, tau_hi, j + 1) ELSE j

\* Calc.__init__: the Calc over the slice data[i:j]
CalcOver(sel, tau_lo, tau_hi) ==
    IF Len(sel) > 0
    THEN [data   |-> sel,
          tau_lo |-> Min2(tau_lo, sel[1]["X.Tstart"]),
          tau_hi |-> IF tau_hi >= LastOf(sel)["X.Tstart"] + LastOf(sel)["X.dT"]
                     THEN tau_hi ELSE LastOf(sel)["X.Tstart"] + LastOf(sel)["X.dT"]]
    ELSE [data |-> sel, tau_lo |-> tau_lo, tau_hi |-> tau_hi]
SliceFrom(data, i, tau_hi) == SubSeq(data, i, FirstStartingFrom(data, tau_hi, i) - 1)
CalcOf(data, tau_lo, tau_hi) ==
    CalcOver(SliceFrom(data, FirstEndingAfter(data, tau_lo, 1), tau_hi), tau_lo, tau_hi)

\* Calc._miter: the all-NA Measurement that it yields for a hole
HoleM(tau, tau_end) == [Measurement EXCEPT !["X.Tstart"] = tau, !["X.dT"] = tau_end - tau]

\* Calc._miter: the Measurements it yields, and whether one of its asserts failed
RECURSIVE MiterFrom(_, _, _, _, _)
MiterFrom(data, tau_hi, i, tau, acc) ==
    IF i <= Len(data)
    THEN IF ~(data[i]["X.Tstart"] < data[i]["X.Tstart"] + data[i]["X.dT"])
         THEN [recs |-> acc, raised |-> TRUE]
         ELSE MiterFrom(data, tau_hi, i + 1, data[i]["X.Tstart"] + data[i]["X.dT"],
                        IF tau < data[i]["X.Tstart"]
                        THEN acc \o <<HoleM(tau, data[i]["X.Tstart"]), data[i]>>
                        ELSE Append(acc, data[i]))
    ELSE IF ~(tau <= tau_hi) THEN [recs |-> acc, raised |-> TRUE]
    ELSE [recs   |-> IF tau < tau_hi THEN Append(acc, HoleM(tau, tau_hi)) ELSE acc,
          raised |-> FALSE]
MiterOf(c) == MiterFrom(c.data, c.tau_hi, 1, c.tau_lo, <<>>)

\* _Σx for Σqci: m[<name>.sum] if it is there, else the sum of the nqci
\* entries of m[<name>.QCI], NA if one of them is NA
RECURSIVE SumEntries(_, _, _)
SumEntries(m, name, q) ==
    IF q = nqci THEN 0 ELSE m[name \o "." \o ToString(q)] + SumEntries(m, name, q + 1)
SumQci(m, name) ==
    IF ~isNA(m[name \o ".sum"]) THEN m[name \o ".sum"]
    ELSE IF nqci = 0 \/ \E q \in QCIs : isNA(m[name \o "." \o ToString(q)]) THEN NA
    ELSE SumEntries(m, name, 0)
\* _Σx for Σcause: no cause is expanded, so it is m[<name>.sum]
SumCause(m, name) == m[name \o ".sum"]

\* the fini and init names that _success_rate is called with:
\* <<prefix, name>> stands for "Σqci <name>.QCI", "Σcause <name>.CAUSE" or <name>
vget(m, name) ==
    IF name[1] = "Σqci" THEN SumQci(m, name[2])
    ELSE IF name[1] = "Σcause" THEN SumCause(m, name[2])
    ELSE m[name[2]]

\* _success_rate: the sums of its loop over the Measurements of _miter
NoSums == [t_ |-> R0, St |-> R0, Sinit |-> 0, Sfini |-> 0, Sufini |-> 0]
Summed(acc, dt, vinit, vfini) ==
    IF isNA(vinit) THEN [acc EXCEPT !.t_ = FAdd(acc.t_, RInt(dt))]
    ELSE IF isNA(vfini)
        THEN [acc EXCEPT !.St = FAdd(acc.St, RInt(dt)), !.Sinit = acc.Sinit + vinit,
                         !.Sufini = acc.Sufini + vinit]
        ELSE [acc EXCEPT !.St = FAdd(acc.St, RInt(dt)), !.Sinit = acc.Sinit + vinit,
                         !.Sfini = acc.Sfini + vfini]
RECURSIVE RateSums(_, _, _, _, _)
RateSums(recs, fini, init, i, acc) ==
    IF i > Len(recs) THEN acc
    ELSE RateSums(recs, fini, init, i + 1,
                  Summed(acc, recs[i]["X.dT"], vget(recs[i], init), vget(recs[i], fini)))

\* Interval(lo, hi)
Interval(lo, hi) == [lo |-> lo, hi |-> hi]

\* _success_rate: the Interval it returns for the sums, with init_ and Σinit + init_
RateWith(s, init_) ==
    Interval(FDiv(RInt(s.Sfini), FAdd(RInt(s.Sinit), init_)),
             FDiv(FAdd(FAdd(RInt(s.Sfini), init_), RInt(s.Sufini)),
                  FAdd(RInt(s.Sinit), init_)))
RateOfSums(s) ==
    IF s.Sinit = 0 \/ s.St = R0 THEN Interval(R0, R1)
    ELSE RateWith(s, FDiv(FMul(s.t_, RInt(s.Sinit)), s.St))

\* _success_rate(fini, init) on what _miter gave: the assert of _miter goes through
RateOver(it, fini, init) ==
    IF it.raised THEN [raised |-> TRUE, iv |-> <<>>]
    ELSE [raised |-> FALSE, iv |-> RateOfSums(RateSums(it.recs, fini, init, 1, NoSums))]
SuccessRateOf(c, fini, init) == RateOver(MiterOf(c), fini, init)

\* _i2pc
i2pc(x) == Interval(FMul(x.lo, RInt(100)), FMul(x.hi, RInt(100)))

\* the fini and init that each success rate of erab_accessibility is computed from
RateNames ==
    [x   |-> [fini |-> <<"Σcause", "RRC.ConnEstabSucc">>, init |-> <<"Σcause", "RRC.ConnEstabAtt">>],
     y   |-> [fini |-> <<"", "S1SIG.ConnEstabSucc">>, init |-> <<"", "S1SIG.ConnEstabAtt">>],
     z   |-> [fini |-> <<"Σqci", "ERAB.EstabInitSuccNbr">>,
              init |-> <<"Σqci", "ERAB.EstabInitAttNbr">>],
     add |-> [fini |-> <<"Σqci", "ERAB.EstabAddSuccNbr">>,
              init |-> <<"Σqci", "ERAB.EstabAddAttNbr">>]]
SR(c, k) == SuccessRateOf(c, RateNames[k].fini, RateNames[k].init)

\* erab_accessibility: InitialEPSBEstabSR and AddedEPSBEstabSR from x, y, z and add
AccessibilityOf(x, y, z, add) ==
    IF x.raised \/ y.raised \/ z.raised \/ add.raised THEN [raised |-> TRUE, ivs |-> <<>>]
    ELSE [raised |-> FALSE,
          ivs |-> << i2pc(Interval(FMul(FMul(x.iv.lo, y.iv.lo), z.iv.lo),
                                   FMul(FMul(x.iv.hi, y.iv.hi), z.iv.hi))),
                     i2pc(add.iv) >>]
ErabAccessibilityOf(c) == AccessibilityOf(SR(c, "x"), SR(c, "y"), SR(c, "z"), SR(c, "add"))

\* the Measurements that the log of a Calc is built from: the four pairs have
\* the same <<init, fini>>; ERAB.EstabInit has it in .sum, ERAB.EstabAdd in
\* the entries of .QCI, with .sum left NA
CalcTstarts  == {0, 3, 4}
CalcDeltas   == {0, 3}
CalcTaus     == {0, 2, 4, 5, 7}
CalcPairVals == {<<NA, NA>>, <<1, 1>>, <<1, NA>>, <<0, 0>>}

InitFields == {"RRC.ConnEstabAtt.sum", "S1SIG.ConnEstabAtt", "ERAB.EstabInitAttNbr.sum"}
    \cup {"ERAB.EstabAddAttNbr." \o ToString(q) : q \in QCIs}
FiniFields == {"RRC.ConnEstabSucc.sum", "S1SIG.ConnEstabSucc", "ERAB.EstabInitSuccNbr.sum"}
    \cup {"ERAB.EstabAddSuccNbr." \o ToString(q) : q \in QCIs}
M4(tstart, dt, pv) ==
    [field \in Fields |->
        IF field = "X.Tstart" THEN tstart
        ELSE IF field = "X.dT" THEN dt
        ELSE IF field \in InitFields THEN pv[1]
        ELSE IF field \in FiniFields THEN pv[2]
        ELSE NA]
CalcMeasurements ==
    {M4(tstart, dt, pv) : tstart \in CalcTstarts, dt \in CalcDeltas, pv \in CalcPairVals}

\* the variables of _BitSync stay unused; float_bits is given by the Init
BitSyncUnused ==
    /\ bs_multi = FALSE /\ bsq = <<>> /\ bs_out = <<>> /\ bs_fed = 0
    /\ bs_tail = 0 /\ out_s = <<>> /\ bs_phase = "" /\ bs_in = <<>>

CalcInit == MLogInit /\ float_bits \in {0, FloatBits}

\* mlog.append(m) of a Measurement that the log accepts
CalcAppend == \E m \in CalcMeasurements : AppendOf(mlog, m).raised = "" /\ AppendM(m)

\* calc = Calc(mlog, tau_lo, tau_hi)
NewCalc ==
    /\ kpi_phase = "log"
    /\ \E tau_lo \in CalcTaus, tau_hi \in CalcTaus :
        /\ tau_lo <= tau_hi
        /\ calc' = CalcOf(mlog, tau_lo, tau_hi)
        /\ calc_req' = <<tau_lo, tau_hi>>
    /\ kpi_phase' = "calc"
    /\ UNCHANGED <<mlog, mlog_raised, kpi_out>>
    /\ KpiOnly

\* the computations leave calc as it is: one is run on every Calc

\* list(calc._miter())
Miter ==
    /\ kpi_phase = "calc" /\ kpi_out = <<>>
    /\ kpi_out' = [op |-> "_miter", k |-> "", raised |-> MiterOf(calc).raised,
                   recs |-> MiterOf(calc).recs, ivs |-> <<>>]
    /\ UNCHANGED <<mlog, mlog_raised, calc, calc_req, kpi_phase>>
    /\ KpiOnly

\* calc._success_rate(fini, init)
SuccessRate ==
    /\ kpi_phase = "calc" /\ kpi_out = <<>>
    /\ \E k \in DOMAIN RateNames :
        kpi_out' = [op |-> "_success_rate", k |-> k, raised |-> SR(calc, k).raised,
                    recs |-> <<>>,
                    ivs |-> IF SR(calc, k).raised THEN <<>> ELSE <<SR(calc, k).iv>>]
    /\ UNCHANGED <<mlog, mlog_raised, calc, calc_req, kpi_phase>>
    /\ KpiOnly

\* calc.erab_accessibility()
ErabAccessibility ==
    /\ kpi_phase = "calc" /\ kpi_out = <<>>
    /\ kpi_out' = [op |-> "erab_accessibility", k |-> "",
                   raised |-> ErabAccessibilityOf(calc).raised,
                   recs |-> <<>>, ivs |-> ErabAccessibilityOf(calc).ivs]
    /\ UNCHANGED <<mlog, mlog_raised, calc, calc_req, kpi_phase>>
    /\ KpiOnly

CalcNext == CalcAppend \/ NewCalc \/ Miter \/ SuccessRate \/ ErabAccessibility

SpecCalcInit ==
    CalcInit /\ ConnIdle /\ NormIdle /\ XlIdle /\ ReaderIdle /\ FileIdle /\ RRIdle
    /\ SamplerIdle /\ BitSyncUnused
    /\ LmIdle
    /\ TmIdle
    /\ CnIdle
SpecCalc == SpecCalcInit /\ [][CalcNext]_vars

\* a record overlaps the window [tau_lo, tau_hi) when it starts before tau_hi
\* and ends after tau_lo
Overlaps(m, tau_lo, tau_hi) ==
    m["X.Tstart"] < tau_hi /\ tau_lo < m["X.Tstart"] + m["X.dT"]
OverlappingOf(data, tau_lo, tau_hi) ==
    SelectSeq(data, LAMBDA m : Overlaps(m, tau_lo, tau_hi))

\* C25: for any log and any tau_lo <= tau_hi, Calc(mlog, tau_lo, tau_hi) selects
\* exactly the records that overlap [tau_lo, tau_hi) and widens its window to
\* cover them in full: calc.tau_lo is the minimum of tau_lo and the Tstart of
\* the first selected record, calc.tau_hi the maximum of tau_hi and the end of
\* the last selected record; when no record overlaps, the window stays as asked
C25_CalcSelectsAndWidens ==
    kpi_phase = "calc" =>
        /\ calc_req[1] <= calc_req[2]
        /\ calc.data = OverlappingOf(mlog, calc_req[1], calc_req[2])
        /\ calc.tau_lo <= calc_req[1]
        /\ calc.tau_hi >= calc_req[2]
        /\ IF calc.data = <<>>
           THEN calc.tau_lo = calc_req[1] /\ calc.tau_hi = calc_req[2]
           ELSE /\ calc.tau_lo \in {calc_req[1], calc.data[1]["X.Tstart"]}
                /\ calc.tau_lo <= calc.data[1]["X.Tstart"]
                /\ calc.tau_hi \in {calc_req[2], LastOf(calc.data)["X.Tstart"]
                                                  + LastOf(calc.data)["X.dT"]}
                /\ calc.tau_hi >= LastOf(calc.data)["X.Tstart"] + LastOf(calc.data)["X.dT"]

\* a window strictly inside the one record, of two, that it selects
C25_Witness ==
    /\ kpi_phase = "calc" /\ Len(mlog) = 2 /\ Len(calc.data) = 1
    /\ calc.tau_lo < calc_req[1] /\ calc_req[1] < calc_req[2] /\ calc_req[2] < calc.tau_hi

\* what _miter gave, and which of its records are records of calc._data
MiterRecs == kpi_out.recs
InData(r) == \E j \in 1..Len(calc.data) : calc.data[j] = r
AllNA(r) == \A f \in Fields \ TimeFields : r[f] = NA

\* C26: the records produced by Calc._miter partition [calc.tau_lo, calc.tau_hi):
\* the first starts at calc.tau_lo, each next one starts exactly where the one
\* before it ends, the last ends at calc.tau_hi, every selected record of the
\* log appears once and unmodified, and every hole is filled by one all-NA record
C26_MiterPartitions ==
    (kpi_phase = "calc" /\ kpi_out # <<>> /\ kpi_out.op = "_miter") =>
        /\ ~kpi_out.raised
        /\ calc.tau_lo = calc.tau_hi => MiterRecs = <<>>
        /\ calc.tau_lo < calc.tau_hi =>
            /\ MiterRecs # <<>>
            /\ MiterRecs[1]["X.Tstart"] = calc.tau_lo
            /\ LastOf(MiterRecs)["X.Tstart"] + LastOf(MiterRecs)["X.dT"] = calc.tau_hi
        /\ \A i \in 2..Len(MiterRecs) :
            MiterRecs[i]["X.Tstart"] = MiterRecs[i - 1]["X.Tstart"] + MiterRecs[i - 1]["X.dT"]
        /\ SelectSeq(MiterRecs, InData) = calc.data
        /\ \A i \in 1..Len(MiterRecs) :
            ~InData(MiterRecs[i]) =>
                /\ AllNA(MiterRecs[i])
                /\ MiterRecs[i]["X.dT"] > 0
                /\ i < Len(MiterRecs) => InData(MiterRecs[i + 1])

\* the Intervals of a result lie in [0, top], lower end first
WithinUpTo(ivs, top) ==
    \A i \in 1..Len(ivs) :
        RLe(R0, ivs[i].lo) /\ RLe(ivs[i].lo, ivs[i].hi) /\ RLe(ivs[i].hi, RInt(top))

\* C27: for every log built by successful appends (empty, with gaps, with NA
\* counters) and every window tau_lo <= tau_hi, the success-rate and the E-RAB
\* accessibility computations return without raising, and every Interval they
\* return has 0 <= lo <= hi <= 1, 0 to 100 for the percentages
C27_RatesReturnWithinBounds ==
    (kpi_phase = "calc" /\ kpi_out # <<>>) =>
        /\ kpi_out.op = "_success_rate" =>
            ~kpi_out.raised /\ Len(kpi_out.ivs) = 1 /\ WithinUpTo(kpi_out.ivs, 1)
        /\ kpi_out.op = "erab_accessibility" =>
            ~kpi_out.raised /\ Len(kpi_out.ivs) = 2 /\ WithinUpTo(kpi_out.ivs, 100)

\* the sums that C28 names, over the records of the window (calc._data) whose
\* init is not NA: "t" their time, "init" their init, "fini" their fini where
\* it is not NA, "ufini" their init where fini is NA
RECURSIVE StatedSum(_, _, _, _, _)
StatedSum(data, fini, init, what, i) ==
    IF i > Len(data) THEN 0
    ELSE StatedSum(data, fini, init, what, i + 1) +
         (IF vget(data[i], init) = NA THEN 0
          ELSE IF what = "t" THEN data[i]["X.dT"]
          ELSE IF what = "init" THEN vget(data[i], init)
          ELSE IF what = "fini" /\ vget(data[i], fini) # NA THEN vget(data[i], fini)
          ELSE IF what = "ufini" /\ vget(data[i], fini) = NA THEN vget(data[i], init)
          ELSE 0)

\* the Interval that C28 gives for these sums, t_plus being the rest of the
\* time of the window and init_plus = t_plus * Sinit / St
StatedWith(Sfini, Sinit, Sufini, init_plus) ==
    Interval(FDiv(RInt(Sfini), FAdd(RInt(Sinit), init_plus)),
             FDiv(FAdd(FAdd(RInt(Sfini), init_plus), RInt(Sufini)),
                  FAdd(RInt(Sinit), init_plus)))
StatedFor(St, Sinit, Sfini, Sufini, t_plus) ==
    IF Sinit = 0 \/ St = 0 THEN Interval(R0, R1)
    ELSE StatedWith(Sfini, Sinit, Sufini, FDiv(FMul(RInt(t_plus), RInt(Sinit)), RInt(St)))
StatedRate(c, fini, init) ==
    StatedFor(StatedSum(c.data, fini, init, "t", 1), StatedSum(c.data, fini, init, "init", 1),
              StatedSum(c.data, fini, init, "fini", 1), StatedSum(c.data, fini, init, "ufini", 1),
              (c.tau_hi - c.tau_lo) - StatedSum(c.data, fini, init, "t", 1))

\* the log of the example of C28: one record [10, 20) with init = 8, fini = 4
ExampleLog ==
    << [Measurement EXCEPT !["X.Tstart"] = 10, !["X.dT"] = 10,
                           !["S1SIG.ConnEstabAtt"] = 8, !["S1SIG.ConnEstabSucc"] = 4] >>
ExampleRate(tau_lo, tau_hi) == SR(CalcOf(ExampleLog, tau_lo, tau_hi), "y")

\* C28: _success_rate returns [Sfini/(Sinit+init_plus),
\* (Sfini+init_plus+Sufini)/(Sinit+init_plus)] with init_plus = t_plus*Sinit/St,
\* St and Sinit taken over the records of the window whose init is not NA, t_plus
\* the rest of the time of the window, Sufini the init of the records whose init
\* is not NA and whose fini is NA; [0, 1] when Sinit = 0 or St = 0.  For one
\* record [10, 20) with init = 8 and fini = 4 it returns [1/2, 1/2] for the
\* window [10, 20) and [4/10.4, 6.4/10.4] for [7, 20)
C28_SuccessRateFormula ==
    (kpi_phase = "calc" /\ kpi_out # <<>> /\ kpi_out.op = "_success_rate") =>
        /\ ~kpi_out.raised
        /\ kpi_out.ivs = << StatedRate(calc, RateNames[kpi_out.k].fini,
                                       RateNames[kpi_out.k].init) >>
        /\ float_bits = 0 =>
            /\ ExampleRate(10, 20) = [raised |-> FALSE, iv |-> Interval(Rat(1, 2), Rat(1, 2))]
            /\ ExampleRate(7, 20) = [raised |-> FALSE, iv |-> Interval(Rat(40, 104), Rat(64, 104))]

-----------------------------------------------------------------------------
(***************************************************************************)
(* Part 6. amari.kpi.LogMeasure: read() turns the entries of enb.xlog into *)
(* Measurements, one for each period between two adjacent entries.         *)
(*                                                                         *)
(* The entries are what logm._rxlog.read() gives, without the sync events  *)
(* and the messages other than stats, which _read skips: a stats Message,  *)
(* an Event, a LogError made from an exception of the reader, or the end   *)
(* of the log, which _read takes as LogError.EOF.  An entry is             *)
(* [kind, timestamp, cells, cc, reason]: cells is the number of cells of a *)
(* stats Message and cc its cumulative counters: the global ones and, for  *)
(* rrc_*, those of its first cell, which are the ones _stats_cc reads; a   *)
(* further cell has the counters FurtherCellCC.  The timestamp of an       *)
(* entry is Stamp of its number.    A Measurement is the one of part 5;    *)
(* the counters stay far below the limits of np.int32.                     *)
(***************************************************************************)

\* bounds of the LogMeasure model
MaxEntries == 5     \* entries that the log gives at most, its ends included

None == <<>>
\* LogError(None, ...): the timestamp of an error that has none
NoneTimestamp == -1

\* the cumulative counters that _handle_stats reads, in the order it reads them
CounterOrder ==
    <<"rrc_connection_request", "rrc_connection_setup_complete",
      "s1_initial_context_setup_request", "s1_initial_context_setup_response",
      "s1_erab_setup_request", "s1_erab_setup_response">>
Counters == {CounterOrder[i] : i \in 1 .. Len(CounterOrder)}
ZeroCC == [counter \in Counters |-> 0]

\* the per-cell counters of the cells of a stats after its first one
FurtherCellCC ==
    [ZeroCC EXCEPT !["rrc_connection_request"] = 2, !["rrc_connection_setup_complete"] = 1]
CellCC(stats, k) == IF k = 1 THEN stats.cc ELSE FurtherCellCC

Stats(timestamp, cells, cc) ==
    [kind |-> "stats", timestamp |-> timestamp, cells |-> cells, cc |-> cc, reason |-> ""]
Event(timestamp) ==
    [kind |-> "event", timestamp |-> timestamp, cells |-> 0, cc |-> ZeroCC, reason |-> ""]
LogError(timestamp, reason) ==
    [kind |-> "LogError", timestamp |-> timestamp, cells |-> 0, cc |-> ZeroCC,
     reason |-> reason]
LogErrorEOF == LogError(NoneTimestamp, "EOF")

isStats(x) == x # None /\ x.kind = "stats"
isEvent(x) == x # None /\ x.kind = "event"
isLogError(x) == x # None /\ x.kind = "LogError"

\* ---- _stats_check, _stats_cc

\* _stats_check: None when stats is good, or the LogError it raises
StatsCheck(stats) ==
    IF stats.cells # 1 THEN LogError(stats.timestamp, "cells") ELSE None

\* _stats_cc: a counter that the message does not have counts as 0; the cc of
\* the model has them all
StatsCC(stats, counter) == stats.cc[counter]

\* ---- _handle_stats

\* new < old in δcc
Decreased_Never(old, new) == FALSE
Decreased(old, new) == new < old

\* the counters for which δcc raises, by their place in CounterOrder
DecreasedIn(stats_prev, stats) ==
    {i \in 1 .. Len(CounterOrder) :
        Decreased(StatsCC(stats_prev, CounterOrder[i]), StatsCC(stats, CounterOrder[i]))}

\* δcc when it does not raise
dcc(stats_prev, stats, counter) == StatsCC(stats, counter) - StatsCC(stats_prev, counter)

\* m_initfini: "take as much as possible from current fini to populate prev
\* fini"; d is what it takes
TakenFor(p, init, fini, vfini) ==
    IF p # None /\ p[fini] < p[init] THEN MinOf({p[init] - p[fini], vfini}) ELSE 0

\* m[fini] > m[init]: "if we still have too much fini - throw it away"
TooMuchFini_Never(vinit, vfini) == FALSE
TooMuchFini(vinit, vfini) == vfini > vinit

Thrown(vinit, vfini) == IF TooMuchFini(vinit, vfini) THEN vinit ELSE vfini

\* m_initfini on mp = [m, p]
MInitFini(mp, init, vinit, fini, vfini) ==
    [m |-> [mp.m EXCEPT ![init] = vinit,
                        ![fini] = Thrown(vinit, vfini - TakenFor(mp.p, init, fini, vfini))],
     p |-> IF mp.p = None THEN None
           ELSE [mp.p EXCEPT ![fini] = @ + TakenFor(mp.p, init, fini, vfini)]]

\* the four calls of m_initfini: <<init, its counter, fini, its counter>>
InitFiniCalls ==
    <<<<"RRC.ConnEstabAtt.sum", "rrc_connection_request",
        "RRC.ConnEstabSucc.sum", "rrc_connection_setup_complete">>,
      <<"S1SIG.ConnEstabAtt", "s1_initial_context_setup_request",
        "S1SIG.ConnEstabSucc", "s1_initial_context_setup_response">>,
      <<"ERAB.EstabInitAttNbr.sum", "s1_initial_context_setup_request",
        "ERAB.EstabInitSuccNbr.sum", "s1_initial_context_setup_response">>,
      <<"ERAB.EstabAddAttNbr.sum", "s1_erab_setup_request",
        "ERAB.EstabAddSuccNbr.sum", "s1_erab_setup_response">>>>

RECURSIVE InitFiniFrom(_, _, _, _)
InitFiniFrom(mp, stats_prev, stats, i) ==
    IF i > Len(InitFiniCalls) THEN mp
    ELSE InitFiniFrom(MInitFini(mp, InitFiniCalls[i][1],
                                dcc(stats_prev, stats, InitFiniCalls[i][2]),
                                InitFiniCalls[i][3],
                                dcc(stats_prev, stats, InitFiniCalls[i][4])),
                      stats_prev, stats, i + 1)

\* "first stats after e.g. service attach -> stays M(ø) for [event_prev, stats)"
StartsAfresh_OnlyNone(estats_prev) == estats_prev = None
StartsAfresh(estats_prev) ==
    estats_prev = None \/ isEvent(estats_prev) \/ isLogError(estats_prev)

\* lm = [estats, m, m_next] are the fields of logm.  _handle_stats gives the
\* new lm and what m_prev has become
HandleStats(lm, stats, m_prev) ==
    IF StatsCheck(stats) # None
    THEN [lm |-> [lm EXCEPT !.estats = StatsCheck(stats)], m |-> m_prev]
    ELSE IF StartsAfresh(lm.estats)
    THEN [lm |-> [lm EXCEPT !.estats = stats], m |-> m_prev]
    ELSE IF DecreasedIn(lm.estats, stats) # {}
    THEN [lm |-> [lm EXCEPT !.estats =
                    LogError(stats.timestamp,
                             "cc " \o CounterOrder[MinOf(DecreasedIn(lm.estats, stats))])],
          m |-> m_prev]
    ELSE [lm |-> [lm EXCEPT !.estats = stats,
                            !.m = InitFiniFrom([m |-> lm.m, p |-> m_prev],
                                               lm.estats, stats, 1).m],
          m |-> InitFiniFrom([m |-> lm.m, p |-> m_prev], lm.estats, stats, 1).p]

\* ---- _read

\* "shift m <- ._m <- ._m_next <- (new Measurement | None for LogError)"
QueueShifted(lm, x) ==
    [estats |-> lm.estats,
     m      |-> IF lm.m_next = None \/ isLogError(x) THEN None
                ELSE [lm.m_next EXCEPT !["X.dT"] = TSub(x.timestamp, lm.m_next["X.Tstart"])],
     m_next |-> IF isLogError(x) THEN None
                ELSE [Measurement EXCEPT !["X.Tstart"] = x.timestamp]]

\* one turn of the loop of _read from "fetch next entry from xlog" on, with x
\* fetched: the new lm and the local m
Turn(lm, x) ==
    IF isStats(x) THEN HandleStats(QueueShifted(lm, x), x, lm.m)
    ELSE [lm |-> [QueueShifted(lm, x) EXCEPT !.estats = x], m |-> lm.m]

Returned(m) == [kind |-> "return", m |-> m, e |-> None]
Raised(e)   == [kind |-> "raise", m |-> None, e |-> e]
AssertionError == [kind |-> "AssertionError"]

\* the asserts of _read after the queue was flushed at an event
FlushedAtEvent(lm) ==
    /\ lm.m = None
    /\ lm.m_next # None
    /\ lm.m_next["X.Tstart"] = lm.estats.timestamp

\* the counters of the eNB: those of the last stats of the log
RECURSIVE LastCC(_, _)
LastCC(log, i) ==
    IF i = 0 THEN ZeroCC
    ELSE IF isStats(log[i]) THEN log[i].cc
    ELSE LastCC(log, i - 1)

\* what the counters grow by between two stats
Grown(c_init, d_init, c_fini, d_fini) == [ZeroCC EXCEPT ![c_init] = d_init, ![c_fini] = d_fini]
Growths ==
    {Grown("rrc_connection_request", 2, "rrc_connection_setup_complete", 1),
     Grown("rrc_connection_request", 1, "rrc_connection_setup_complete", 1),
     Grown("rrc_connection_request", 0, "rrc_connection_setup_complete", 2),
     Grown("s1_initial_context_setup_request", 2, "s1_initial_context_setup_response", 1),
     Grown("s1_erab_setup_request", 1, "s1_erab_setup_response", 2)}
\* a counter that goes down, as in test_LogMeasure_cc_wraparound
Lowered(cc) ==
    IF cc["rrc_connection_request"] > 0
    THEN {[cc EXCEPT !["rrc_connection_request"] = @ - 1]} ELSE {}

\* the entries that may follow log
NextStats(timestamp, cc) ==
    {Stats(timestamp, 1, [counter \in Counters |-> cc[counter] + d[counter]]) : d \in Growths}
        \cup {Stats(timestamp, 1, low) : low \in Lowered(cc)}
        \cup {Stats(timestamp, 2, cc)}
\* the timestamp of entry i of the log: its number, or, spread out, times
\* that are far apart next to what Ttime resolves
Spread(i) ==
    IF i = 1 THEN 3 ELSE IF i = 2 THEN Pow2(TimeBits + 1) - 2 ELSE Pow2(TimeBits + i - 2)
Stamp(i) == IF lm_spread THEN Spread(i) ELSE i
NextEntries(log) ==
    IF Len(log) >= MaxEntries THEN {}
    ELSE NextStats(Stamp(Len(log) + 1), LastCC(log, Len(log)))
            \cup {Event(Stamp(Len(log) + 1)), LogError(NoneTimestamp, "read"), LogErrorEOF}

\* _read from the top of its loop with the local m still None, as a set: one
\* result [lm, log, ret] for every way the log may go on
RECURSIVE ReadOf(_, _)
RECURSIVE FedOf(_, _)
ReadOf(lm, log) ==
    IF (isEvent(lm.estats) \/ isLogError(lm.estats)) /\ lm.m # None
    THEN {[lm |-> [lm EXCEPT !.m = None], log |-> log, ret |-> Returned(lm.m)]}
    ELSE IF isLogError(lm.estats)
    THEN {[lm |-> [lm EXCEPT !.estats = None], log |-> log,
           ret |-> IF lm.estats = LogErrorEOF THEN Returned(None) ELSE Raised(lm.estats)]}
    ELSE IF isEvent(lm.estats) /\ ~FlushedAtEvent(lm)
    THEN {[lm |-> lm, log |-> log, ret |-> Raised(AssertionError)]}
    ELSE UNION {FedOf(Turn(lm, x), Append(log, x)) : x \in NextEntries(log)}
FedOf(r, log) ==
    IF r.m # None THEN {[lm |-> r.lm, log |-> log, ret |-> Returned(r.m)]}
    ELSE ReadOf(r.lm, log)

\* LogMeasure.__init__
LmInit ==
    /\ lm_estats = None /\ lm_m = None /\ lm_m_next = None
    /\ lm_log = <<>> /\ lm_ret = <<>>
    /\ lm_spread = FALSE

\* the same over a log of either kind of timestamps
LmInitStamped ==
    /\ lm_estats = None /\ lm_m = None /\ lm_m_next = None
    /\ lm_log = <<>> /\ lm_ret = <<>>
    /\ lm_spread \in BOOLEAN

LmOnly == UNCHANGED <<connVars, normVars, xlVars, readerVars, fileVars, rrVars,
        samplerVars, bitsyncVars, kpiVars,
        tmVars,
        cnVars>>

\* LogMeasure.read
LmRead ==
    /\ \E r \in ReadOf([estats |-> lm_estats, m |-> lm_m, m_next |-> lm_m_next], lm_log) :
        /\ lm_estats' = r.lm.estats
        /\ lm_m' = r.lm.m
        /\ lm_m_next' = r.lm.m_next
        /\ lm_log' = r.log
        /\ lm_ret' = Append(lm_ret, r.ret)
    /\ UNCHANGED lm_spread
    /\ LmOnly

LmNext == LmRead

SpecLogMeasureInit ==
    /\ LmInit
    /\ ConnIdle /\ NormIdle /\ XlIdle /\ ReaderIdle /\ FileIdle /\ RRIdle
    /\ SamplerIdle /\ BitSyncIdle /\ KpiIdle
    /\ TmIdle
    /\ CnIdle
SpecLogMeasure == SpecLogMeasureInit /\ [][LmNext]_vars

SpecLogMeasureStampedInit ==
    /\ LmInitStamped
    /\ ConnIdle /\ NormIdle /\ XlIdle /\ ReaderIdle /\ FileIdle /\ RRIdle
    /\ SamplerIdle /\ BitSyncIdle /\ KpiIdle
    /\ TmIdle
    /\ CnIdle
SpecLogMeasureStamped == SpecLogMeasureStampedInit /\ [][LmNext]_vars


(***************************************************************************)
(* Claims about LogMeasure, checked under SpecLogMeasure.  They are told   *)
(* from the log and from what read() gave, without the fields of logm.     *)
(***************************************************************************)

\* log[i] is a stats that LogMeasure keeps to count the next period from:
\* it has one cell, and no counter of it is lower than in the stats kept
\* right before it
RECURSIVE Baseline(_, _)
Baseline(log, i) ==
    /\ i >= 1 /\ i <= Len(log)
    /\ isStats(log[i]) /\ log[i].cells = 1
    /\ Baseline(log, i - 1) => \A counter \in Counters : log[i].cc[counter] >= log[i-1].cc[counter]

\* the period from log[i] to log[i+1] has its events counted
Counted(log, i) == Baseline(log, i) /\ Baseline(log, i + 1)

\* the attempts and the successes counted in the period, call \in InitFiniCalls
CountedInit(log, i, call) == log[i+1].cc[call[2]] - log[i].cc[call[2]]
CountedFini(log, i, call) == log[i+1].cc[call[4]] - log[i].cc[call[4]]

\* the successes of a period that may go to the period before it:
\* "all" of them, or only the "excess" over its attempts
Movable(rule, log, i, call) ==
    IF rule = "all" THEN CountedFini(log, i, call)
    ELSE IF CountedFini(log, i, call) > CountedInit(log, i, call)
    THEN CountedFini(log, i, call) - CountedInit(log, i, call)
    ELSE 0

\* MovedBy: the successes of period i that are moved to period i-1, as far as
\* that one has attempts without successes.  KeptBy: the successes that stay
\* in period i, what is over its attempts being dropped
RECURSIVE MovedBy(_, _, _, _)
RECURSIVE KeptBy(_, _, _, _)
MovedBy(rule, log, i, call) ==
    IF i > 1 /\ Counted(log, i - 1) /\ Counted(log, i)
    THEN MinOf({CountedInit(log, i - 1, call) - KeptBy(rule, log, i - 1, call),
                Movable(rule, log, i, call)})
    ELSE 0
KeptBy(rule, log, i, call) ==
    MinOf({CountedFini(log, i, call) - MovedBy(rule, log, i, call),
           CountedInit(log, i, call)})
ReportedBy(rule, log, i, call) ==
    KeptBy(rule, log, i, call) + MovedBy(rule, log, i + 1, call)

Calls == {InitFiniCalls[j] : j \in 1 .. Len(InitFiniCalls)}

\* the Measurements that read() returned
ReturnedMs == {lm_ret[k].m : k \in {j \in 1 .. Len(lm_ret) : lm_ret[j].m # None}}

RECURSIVE SumReported(_, _)
SumReported(k, call) ==
    IF k = 0 THEN 0
    ELSE SumReported(k - 1, call)
         + (IF lm_ret[k].m # None /\ ~isNA(lm_ret[k].m[call[3]]) THEN lm_ret[k].m[call[3]] ELSE 0)
RECURSIVE SumCounted(_, _)
SumCounted(i, call) ==
    IF i = 0 THEN 0
    ELSE SumCounted(i - 1, call)
         + (IF Counted(lm_log, i) THEN CountedFini(lm_log, i, call) ELSE 0)

\* Succ <= Att in what read() returns; the period between two entries that
\* are not both stats kept to count from is returned without data, and so
\* takes and gives no successes; a counted period reports its attempts as
\* counted and its successes as moved by the rule; the reported successes
\* do not sum to more than the counted ones
CorrectedBy(rule) ==
    /\ \A m \in ReturnedMs : \A call \in Calls :
        /\ m[call[3]] <= m[call[1]]
        /\ IF Counted(lm_log, m["X.Tstart"])
           THEN /\ m[call[1]] = CountedInit(lm_log, m["X.Tstart"], call)
                /\ m[call[3]] = ReportedBy(rule, lm_log, m["X.Tstart"], call)
           ELSE AllNA(m)
    /\ \A call \in Calls : SumReported(Len(lm_ret), call) <= SumCounted(Len(lm_log), call)

\* C29 (as amended): every Measurement that read() returns has Succ <= Att
\* in the four pairs.  The successes counted in a period are moved to the
\* period right before it as far as that period still has attempts without
\* successes, also when the period could hold them itself; what then is
\* still over the attempts of the period is dropped.  Nothing is moved
\* across an event or an error, and the reported successes never sum to
\* more than the successes counted in the log.
C29_SuccWithinAtt == CorrectedBy("all")

\* C29 (as stated): the same, with only the successes beyond what the
\* period can hold being moved to the period before it.
C29_OnlyExcessMoved == CorrectedBy("excess")

\* a returned Measurement took successes from a period that could hold them
\* all, and another returned Measurement had successes dropped
C29_Witness ==
    /\ \E m \in ReturnedMs : \E call \in Calls :
        /\ Counted(lm_log, m["X.Tstart"] + 1)
        /\ MovedBy("all", lm_log, m["X.Tstart"] + 1, call) > 0
        /\ Movable("excess", lm_log, m["X.Tstart"] + 1, call) = 0
    /\ \E m \in ReturnedMs : \E call \in Calls :
        /\ Counted(lm_log, m["X.Tstart"])
        /\ CountedFini(lm_log, m["X.Tstart"], call)
             - MovedBy("all", lm_log, m["X.Tstart"], call) > CountedInit(lm_log, m["X.Tstart"], call)

\* the period [tstart, tstart + dt) without data
NoData(tstart, dt) == [Measurement EXCEPT !["X.Tstart"] = tstart, !["X.dT"] = dt]

\* a counter of the stats log[i] is lower than in the stats right before it
LowerAt(log, i) ==
    /\ i >= 2 /\ i <= Len(log) /\ isStats(log[i-1]) /\ isStats(log[i])
    /\ log[i-1].cells = 1 /\ log[i].cells = 1
    /\ \E counter \in Counters : log[i].cc[counter] < log[i-1].cc[counter]

\* the calls of read() that raised LogError "cc ..." with timestamp
RaisedCC(timestamp) ==
    {k \in 1 .. Len(lm_ret) :
        /\ lm_ret[k].kind = "raise" /\ isLogError(lm_ret[k].e)
        /\ lm_ret[k].e.timestamp = timestamp
        /\ \E counter \in Counters : lm_ret[k].e.reason = "cc " \o counter}

\* the Measurement with data that covers [tstart, tstart + 1) and has the
\* attempts counted between log[tstart] and log[tstart+1]
ComputedFrom(r, log, tstart) ==
    /\ r.kind = "return" /\ r.m # None
    /\ r.m["X.Tstart"] = tstart /\ r.m["X.dT"] = 1
    /\ \A call \in Calls :
        /\ r.m[call[1]] = CountedInit(log, tstart, call)
        /\ ~isNA(r.m[call[3]])

\* what LogMeasure does about the lower counter of log[i]
ReportedLower(i) ==
    /\ Len(lm_log) > i => RaisedCC(i) # {}
    /\ \A k \in RaisedCC(i) :
        /\ k > 1 /\ lm_ret[k-1] = Returned(NoData(i - 1, 1))
        /\ (k + 1 <= Len(lm_ret) /\ Len(lm_log) > i /\ isStats(lm_log[i+1]))
            => lm_ret[k+1] = Returned(NoData(i, 1))
        /\ (k + 2 <= Len(lm_ret) /\ Counted(lm_log, i + 1))
            => ComputedFrom(lm_ret[k+2], lm_log, i + 1)

EventsOf(log) == {i \in 1 .. Len(log) : isEvent(log[i])}

\* the Measurement that read() returned for the period that starts at log[i]
ReturnedFor(i) == {m \in ReturnedMs : m["X.Tstart"] = i}

RECURSIVE CellGrowth(_, _, _, _)
CellGrowth(log, i, counter, k) ==
    IF k = 0 THEN 0
    ELSE CellGrowth(log, i, counter, k - 1)
         + CellCC(log[i+1], k)[counter]
         - (IF k <= log[i].cells THEN CellCC(log[i], k)[counter] ELSE 0)

\* C32: stats of any number of cells are accepted and the per-cell counters
\* are summed over the cells.  No call of read() raises LogError for the
\* number of cells, and the period between a stats and the stats after it,
\* when no counter is lower in the second, is returned with
\* RRC.ConnEstabAtt.sum the growth of rrc_connection_request summed over
\* the cells.
C32_CellsAccumulated ==
    /\ \A k \in 1 .. Len(lm_ret) :
        (lm_ret[k].kind = "raise" /\ isLogError(lm_ret[k].e)) => lm_ret[k].e.reason # "cells"
    /\ \A i \in 1 .. Len(lm_log) - 1 :
        (/\ Baseline(lm_log, i) /\ isStats(lm_log[i+1])
         /\ \A counter \in Counters : lm_log[i+1].cc[counter] >= lm_log[i].cc[counter])
        => \A m \in ReturnedFor(i) :
            m["RRC.ConnEstabAtt.sum"]
                = CellGrowth(lm_log, i, "rrc_connection_request", lm_log[i+1].cells)


\* the Measurements that the first k calls of read() returned, in their order
RECURSIVE ReturnedSeq(_)
ReturnedSeq(k) ==
    IF k = 0 THEN <<>>
    ELSE IF lm_ret[k].m # None THEN Append(ReturnedSeq(k - 1), lm_ret[k].m)
    ELSE ReturnedSeq(k - 1)

TimesGiven(m) == ~isNA(m["X.Tstart"]) /\ ~isNA(m["X.dT"]) /\ m["X.dT"] > 0

\* every Measurement of ms has its times, and passes the checks that
\* MeasurementLog.append makes against the one before it
AppendsInOrder(ms) ==
    \A k \in 1 .. Len(ms) :
        /\ TimesGiven(ms[k])
        /\ k > 1 => TstartGrows(ms[k-1], ms[k]) /\ StartsAfterEnd(ms[k-1], ms[k])

\* C39: over a log whose events and stats have strictly increasing
\* timestamps, the Measurements that successive read() calls return have
\* X.Tstart and X.dT set, X.dT > 0, X.Tstart strictly increasing, and each
\* passes the ordering and the non-overlap check of MeasurementLog.append
\* against the one returned before it.
C39_ReturnedAppendInOrder == AppendsInOrder(ReturnedSeq(Len(lm_ret)))

-----------------------------------------------------------------------------
(***************************************************************************)
(* Part 7. Tmain of amari.drb._x_stats_srv: the loop that polls the eNB,   *)
(* passes every report to the sampler, accounts the Samples it returns     *)
(* into per-QCI totals, and answers a client request with the totals.      *)
(* One direction is modelled: the _Sampler made with use_bitsync is 'dl',  *)
(* the one without is 'ul'.  Times are in tti, as in part 4.               *)
(***************************************************************************)

\* math.ceil of a rational
RCeil(q) == RInt(-((-q[1]) \div q[2]))

\* _Σ()
Sigma0 ==
    [tx_bytes |-> 0, tx_time |-> R0, tx_time_err |-> R0,
     tx_time_notailtti |-> R0, tx_time_notailtti_err |-> R0, tx_nsamples |-> 0]

\* the 2 that account compares t_hi with: times are in seconds there
TwoSeconds == RMul(RInt(2000), tti)

\* t_lo and t_hi of account
TLo(s) == RSub(s.tx_time, s.tx_time_err)
THi(s) == RAdd(s.tx_time, s.tx_time_err)

\* "do not account short transmissions": the Sample s is left out
Short(s) == RLe(THi(s), tti) \/ (RLe(THi(s), TwoSeconds) /\ s.tx_bytes < 1000)

\* tt_hi and tt_lo of account, in tti
TtHi(s) == RCeil(RSub(RDiv(THi(s), tti), R1))
TtLo(s) == IF RLt(R1, RDiv(TLo(s), tti)) THEN RCeil(RSub(RDiv(TLo(s), tti), R1))
                                         ELSE RDiv(TLo(s), tti)

\* Σ with the Sample s added
Added(S, s) ==
    [tx_nsamples           |-> S.tx_nsamples + 1,
     tx_bytes              |-> S.tx_bytes + s.tx_bytes,
     tx_time               |-> RAdd(S.tx_time, s.tx_time),
     tx_time_err           |-> RAdd(S.tx_time_err, s.tx_time_err),
     tx_time_notailtti     |-> RAdd(S.tx_time_notailtti,
                                    RMul(RDiv(RAdd(TtLo(s), TtHi(s)), RInt(2)), tti)),
     tx_time_notailtti_err |-> RAdd(S.tx_time_notailtti_err,
                                    RMul(RDiv(RSub(TtHi(s), TtLo(s)), RInt(2)), tti))]

\* the loop of account over the Samples of one QCI
RECURSIVE AccountSamples(_, _)
AccountSamples(S, samplev) ==
    IF samplev = <<>> THEN S
    ELSE AccountSamples(IF Short(Head(samplev)) THEN S ELSE Added(S, Head(samplev)),
                        Tail(samplev))

\* account(qci_Σ, qci_samples)
Account(qci_S, qsamples) ==
    [q \in DOMAIN qci_S \cup DOMAIN qsamples |->
        IF q \in DOMAIN qsamples THEN AccountSamples(Get(qci_S, q, Sigma0), qsamples[q])
                                 ELSE qci_S[q]]

\* the totals that Tmain goes on with after a reply: "# reset"
TotalsAfterReply_Kept(qci_S) == qci_S

TotalsAfterReply(qci_S) == EmptyMap

\* ---- the reports that rx_all brings

\* [qci, total_bytes] of an erab in one report
TmErabReports == {[qci |-> 4, total_bytes |-> 500], [qci |-> 4, total_bytes |-> 2500],
                  [qci |-> 9, total_bytes |-> 2500]}
\* <<tx, retx>> of a cell in one report
TmTxValues    == {<<1, 0>>, <<2, 1>>}
TmUEReports   == [cells     : [CellIds -> {[tx |-> x[1], retx |-> x[2], bitrate |-> 1000 * x[1],
                                            ri |-> 2] : x \in TmTxValues}],
                  erab_list : MapsOn(ErabIds, TmErabReports)]
TmUELists     == MapsOn(UEIds, TmUEReports)

\* <<qci, Sample>> for every Sample of qsamples, QCI after QCI
RECURSIVE SamplesOf(_, _)
SamplesOf(qsamples, qs) ==
    IF qs = {} THEN <<>>
    ELSE [k \in 1..Len(qsamples[MinOf(qs)]) |-> <<MinOf(qs), qsamples[MinOf(qs)][k]>>]
         \o SamplesOf(qsamples, qs \ {MinOf(qs)})

\* Tmain before its loop: rx_all and S = Sampler(ue_stats, stats)
TmainInit ==
    /\ use_bitsync \in BOOLEAN
    /\ use_ri = use_bitsync
    /\ radio = [ri |-> 2, xl_use_avg |-> <<1, 10>>]
    /\ s_t = 0
    /\ ue_stats \in [utc : {0}, ue_list : TmUELists]
    /\ Constructed(SamplerAdd(EmptyMap, ue_stats.ue_list, 0 - (-1000), TRUE, use_bitsync,
                              use_ri, [c \in CellIds |-> radio.xl_use_avg]))
    /\ tx_after = 0
    /\ tx_out = 0
    /\ tm_sum = EmptyMap
    /\ tm_pc = "select"
    /\ tm_reply = <<>>
    /\ tm_since = <<>>

TmainOnly == UNCHANGED <<connVars, normVars, xlVars, readerVars, fileVars, rrVars, bitsyncVars,
                         kpiVars, lmVars,
        cnVars>>

\* S.add gave r and Tmain accounted its Samples
Polled(r) ==
    /\ AddDone(r)
    /\ tm_sum' = Account(tm_sum, r.qsamples)
    /\ tm_since' = tm_since \o SamplesOf(r.qsamples, DOMAIN r.qsamples)

\* the rest of an iteration of the loop, after the select: sleep, rx_all,
\* S.add and account
TmainPoll ==
    /\ ~serr
    /\ \E dt \in DtValues, ue_list \in TmUELists :
        /\ s_t + dt <= MaxT
        /\ s_t' = s_t + dt
        /\ ue_stats' = [utc |-> s_t + dt, ue_list |-> ue_list]
        /\ Polled(SamplerAdd(ues, ue_list, dt, FALSE, use_bitsync, use_ri,
                             [c \in CellIds |-> radio.xl_use_avg]))
    /\ tm_pc' = "select"
    /\ UNCHANGED <<use_bitsync, use_ri, radio, tm_reply>>
    /\ TmainOnly

\* Tmain after S.finish() gave r: account, respch.send of qci_Σ, reset.  The
\* reply is kept with the Samples the sampler returned since the reply before
Replied(r) ==
    /\ FinishDone(r)
    /\ tm_reply' = [qci_dict |-> Account(tm_sum, r.qsamples),
                    of       |-> tm_since \o SamplesOf(r.qsamples, DOMAIN r.qsamples)]
    /\ tm_sum' = TotalsAfterReply(Account(tm_sum, r.qsamples))
    /\ tm_since' = <<>>

\* the select of the loop receives a client request
TmainReply ==
    /\ ~serr
    /\ tm_pc = "select"
    /\ Replied(SamplerFinish(DOMAIN ues, Acc0(ues), use_bitsync))
    /\ utx' = EmptyMap
    /\ tm_pc' = "poll"
    /\ UNCHANGED <<use_bitsync, use_ri, radio, s_t, ue_stats, tx_after>>
    /\ TmainOnly

TmainNext == TmainPoll \/ TmainReply

SpecTmainInit ==
    /\ TmainInit
    /\ ConnIdle /\ NormIdle /\ XlIdle /\ ReaderIdle /\ FileIdle /\ RRIdle
    /\ BitSyncIdle /\ KpiIdle /\ LmIdle
    /\ CnIdle
SpecTmain == SpecTmainInit /\ [][TmainNext]_vars


\* ---- what the replies aggregate

\* the Sample s is left out as stated: t+e <= 1 tti, or t+e <= 2 tti and
\* tx_bytes < 1000
StatedShort(s) ==
    RLe(THi(s), tti) \/ (RLe(THi(s), RMul(RInt(2), tti)) /\ s.tx_bytes < 1000)

\* number, tx_bytes, tx_time and tx_time_err of the Samples of the QCI q
\* among sv that are not left out as stated
RECURSIVE StatedTotals(_, _)
StatedTotals(sv, q) ==
    IF sv = <<>> THEN <<0, 0, R0, R0>>
    ELSE IF Head(sv)[1] # q \/ StatedShort(Head(sv)[2]) THEN StatedTotals(Tail(sv), q)
    ELSE <<StatedTotals(Tail(sv), q)[1] + 1,
           StatedTotals(Tail(sv), q)[2] + Head(sv)[2].tx_bytes,
           RAdd(StatedTotals(Tail(sv), q)[3], Head(sv)[2].tx_time),
           RAdd(StatedTotals(Tail(sv), q)[4], Head(sv)[2].tx_time_err)>>

TotalsIn(S) == <<S.tx_nsamples, S.tx_bytes, S.tx_time, S.tx_time_err>>

\* the QCIs of the Samples sv
QcisOf(sv) == {sv[k][1] : k \in 1..Len(sv)}

\* C35: the totals of a QCI are those of its Samples that are not left out,
\* a Sample being left out exactly when t+e <= 1 tti, or when t+e <= 2 tti
\* and tx_bytes < 1000: for the totals being accumulated and for those of
\* the last reply.
C35_ShortSamplesLeftOut ==
    /\ tm_pc # "" =>
        \A q \in QcisOf(tm_since) :
            q \in DOMAIN tm_sum /\ TotalsIn(tm_sum[q]) = StatedTotals(tm_since, q)
    /\ tm_reply # <<>> =>
        \A q \in QcisOf(tm_reply.of) :
            /\ q \in DOMAIN tm_reply.qci_dict
            /\ TotalsIn(tm_reply.qci_dict[q]) = StatedTotals(tm_reply.of, q)


\* number, tx_bytes, tx_time and tx_time_err of the Samples of the QCI q
\* among sv that account does not leave out
RECURSIVE AccountedTotals(_, _)
AccountedTotals(sv, q) ==
    IF sv = <<>> THEN <<0, 0, R0, R0>>
    ELSE IF Head(sv)[1] # q \/ Short(Head(sv)[2]) THEN AccountedTotals(Tail(sv), q)
    ELSE <<AccountedTotals(Tail(sv), q)[1] + 1,
           AccountedTotals(Tail(sv), q)[2] + Head(sv)[2].tx_bytes,
           RAdd(AccountedTotals(Tail(sv), q)[3], Head(sv)[2].tx_time),
           RAdd(AccountedTotals(Tail(sv), q)[4], Head(sv)[2].tx_time_err)>>

\* the totals qci_S are those of the Samples sv and of nothing else
AggregatesExactly(qci_S, sv) ==
    /\ DOMAIN qci_S = QcisOf(sv)
    /\ \A q \in DOMAIN qci_S : TotalsIn(qci_S[q]) = AccountedTotals(sv, q)

\* no burst is in progress in the sampler
NoBurstInProgress ==
    \A id \in DOMAIN ues :
        /\ ues[id].qci_flows = EmptyMap
        /\ use_bitsync => ues[id].bitsync.txq = <<>> /\ ues[id].bitsync.txsplit = <<>>

\* C36: a reply aggregates exactly the Samples that the sampler returned
\* since the reply before, those of the bursts that the request finished
\* included; after the reply no burst is in progress and the totals are
\* empty, and the totals being accumulated are those of the Samples returned
\* since the last reply: no Sample is in two replies.
C36_ReplyAggregatesSinceLast ==
    /\ tm_reply # <<>> => AggregatesExactly(tm_reply.qci_dict, tm_reply.of)
    /\ tm_pc = "poll" => tm_sum = EmptyMap /\ tm_since = <<>> /\ NoBurstInProgress
    /\ tm_pc # "" => AggregatesExactly(tm_sum, tm_since)

\* a reply aggregated a Sample, and a Sample returned after it is accounted
\* for the next reply
C36_Witness ==
    /\ tm_pc = "select"
    /\ tm_reply # <<>>
    /\ \E q \in DOMAIN tm_reply.qci_dict : tm_reply.qci_dict[q].tx_nsamples > 0
    /\ \E q \in DOMAIN tm_sum : tm_sum[q].tx_nsamples > 0
    /\ tx_out > 3 * 1000


-----------------------------------------------------------------------------
(***************************************************************************)
(* Part 8. xlog and the tasks it runs, for cancellation: xlog / xlog1, the *)
(* scheduler loop _xlog1, the server of the synthetic x.drb_stats query    *)
(* (_XMsgServer.run, _x_stats_srv) with its Tmain and its pollers          *)
(* Trx_ue_get and Trx_stats.  Only what a task waits for is kept: timers,  *)
(* replies, channels and ctx.  A select with several ready cases takes any *)
(* of them.  A send on an unbuffered channel is one step of the sender and *)
(* of the receiver.                                                        *)
(***************************************************************************)

Pollers == {"ue_get", "stats"}

\* ctx of the WorkGroup of xlog1, and xsrv._runCtx, are done
Ctx1Done   == cn_ctx \/ cn_wg1
RunCtxDone == Ctx1Done \/ pc_v = "exit"

\* (ctx of the WorkGroup of _x_stats_srv taken as a root context)
Ctx2Done_Root == cn_wg2

\* ctx of the WorkGroup of _x_stats_srv is done
Ctx2Done   == Ctx1Done \/ cn_wg2

CnInit ==
    /\ cn_ctx = FALSE /\ cn_wg1 = FALSE /\ cn_wg2 = FALSE /\ cn_err = "" /\ cn_ret = ""
    /\ pc_x = "connect" /\ pc_s = "none" /\ pc_v = "none" /\ pc_t = "none"
    /\ pc_p = [p \in Pollers |-> "none"]
    /\ cn_retq = {} /\ cn_got = {} /\ cn_resp = FALSE /\ cn_conns = {}

CnOnly == UNCHANGED <<connVars, normVars, xlVars, readerVars, fileVars, rrVars, samplerVars,
                      bitsyncVars, kpiVars, lmVars, tmVars>>

\* ctx is cancelled by whoever runs xlog
CnCancel ==
    /\ ~cn_ctx /\ pc_x # "end"
    /\ cn_ctx' = TRUE
    /\ UNCHANGED <<cn_wg1, cn_wg2, cn_err, cn_ret, pc_x, pc_s, pc_v, pc_t, pc_p, cn_retq,
                   cn_got, cn_resp, cn_conns>>
    /\ CnOnly

\* a task of the WorkGroup of xlog1 raised e: the WorkGroup cancels its ctx
\* and keeps the first failure
Failed1(e) ==
    /\ cn_wg1' = TRUE
    /\ cn_err' = IF cn_err = "" THEN e ELSE cn_err

\* xlog1: amari.connect, which does not look at ctx and ends by itself;
\* then `service attach`, wg.go of the server if the list has the synthetic
\* query, wg.go of _xlog1; or `service connect failure` and return
XConnect ==
    /\ pc_x = "connect"
    /\ \E ok \in BOOLEAN, xsrv \in BOOLEAN :
          IF ok
          THEN /\ pc_x' = "wgwait"
               /\ pc_s' = "pick"
               /\ pc_v' = IF xsrv THEN "connect2" ELSE "none"
               /\ cn_conns' = {"conn"}
          ELSE /\ pc_x' = "reconnect"
               /\ UNCHANGED <<pc_s, pc_v, cn_conns>>
    /\ cn_wg1' = FALSE /\ cn_wg2' = FALSE /\ cn_err' = ""
    /\ pc_t' = "none" /\ pc_p' = [p \in Pollers |-> "none"]
    /\ cn_retq' = {} /\ cn_got' = {} /\ cn_resp' = FALSE
    /\ UNCHANGED <<cn_ctx, cn_ret>>
    /\ CnOnly

\* xlog1, the deferred calls, and the except clause of xlog: wg.wait() ends
\* when the tasks have ended and raises the first failure, `service detach`
\* is emitted, conn.close() raises ConnError if the connection was down;
\* xlog raises what it got if ctx is done, else goes to wait for reconnect
XWaitTasks ==
    /\ pc_x = "wgwait"
    /\ pc_s = "exit" /\ pc_v \in {"none", "exit"}
    /\ \E close_raises \in BOOLEAN :
          IF cn_ctx
          THEN /\ pc_x' = "end"
               /\ cn_ret' = IF close_raises THEN "ConnError" ELSE cn_err
          ELSE /\ pc_x' = "reconnect"
               /\ UNCHANGED cn_ret
    /\ cn_conns' = cn_conns \ {"conn"}
    /\ UNCHANGED <<cn_ctx, cn_wg1, cn_wg2, cn_err, pc_s, pc_v, pc_t, pc_p, cn_retq, cn_got,
                   cn_resp>>
    /\ CnOnly

\* xlog, the select after xlog1: the timer of δt_reconnect
XReconnectTimer ==
    /\ pc_x = "reconnect"
    /\ pc_x' = "connect"
    /\ UNCHANGED <<cn_ctx, cn_wg1, cn_wg2, cn_err, cn_ret, pc_s, pc_v, pc_t, pc_p, cn_retq,
                   cn_got, cn_resp, cn_conns>>
    /\ CnOnly

\* xlog, the select after xlog1: ctx.done(): raise ctx.err()
XReconnectCancel ==
    /\ pc_x = "reconnect"
    /\ cn_ctx
    /\ pc_x' = "end"
    /\ cn_ret' = "ctx"
    /\ UNCHANGED <<cn_ctx, cn_wg1, cn_wg2, cn_err, pc_s, pc_v, pc_t, pc_p, cn_retq, cn_got,
                   cn_resp, cn_conns>>
    /\ CnOnly

\* ---- _xlog1

\* the scheduler goes to pc
SchedTo(pc) ==
    /\ pc_s' = pc
    /\ UNCHANGED <<cn_ctx, cn_wg1, cn_wg2, cn_err, cn_ret, pc_x, pc_v, pc_t, pc_p, cn_retq,
                   cn_got, cn_resp, cn_conns>>
    /\ CnOnly

\* the scheduler raises e
SchedRaises(e) ==
    /\ pc_s' = "exit"
    /\ Failed1(e)
    /\ UNCHANGED <<cn_ctx, cn_wg2, cn_ret, pc_x, pc_v, pc_t, pc_p, cn_retq, cn_got, cn_resp,
                   cn_conns>>
    /\ CnOnly

\* the spec that fires next is ahead of the clock: δtsleep > 0, select
SPickAhead == pc_s = "pick" /\ SchedTo("sleep")
\* or it is due already: no select
SPickDue   == pc_s = "pick" /\ SchedTo("fire")

\* the select before a firing
SSleepTimer  == pc_s = "sleep" /\ SchedTo("fire")
SSleepCancel == pc_s = "sleep" /\ Ctx1Done /\ SchedRaises("ctx")

\* the firing: meta.sync is emitted; a query goes to the connection; the
\* synthetic query goes to its server
SFireSync == pc_s = "fire" /\ SchedTo("pick")
SFireReq  == pc_s = "fire" /\ SchedTo("req")
SFireXReq == pc_s = "fire" /\ pc_v # "none" /\ SchedTo("xsend")

\* conn.req_: the reply comes; the connection fails; ctx is done
SReqReply  == pc_s = "req" /\ SchedTo("pick")
SReqFail   == pc_s = "req" /\ SchedRaises("ConnError")
SReqCancel == pc_s = "req" /\ Ctx1Done /\ SchedRaises("ctx")

\* _XMsgServer.req_, either select: ctx merged with xsrv._runCtx is done
SXReqCancel == pc_s \in {"xsend", "xrecv"} /\ RunCtxDone /\ SchedRaises("ctx")

\* _XMsgServer.req_, the second select: respch.recv
SXReqReply ==
    /\ pc_s = "xrecv" /\ cn_resp
    /\ pc_s' = "pick"
    /\ cn_resp' = FALSE
    /\ UNCHANGED <<cn_ctx, cn_wg1, cn_wg2, cn_err, cn_ret, pc_x, pc_v, pc_t, pc_p, cn_retq,
                   cn_got, cn_conns>>
    /\ CnOnly

\* ---- _XMsgServer.run and _x_stats_srv up to wg.wait()

\* the server raises e; its deferred calls close its connections
SrvRaises(e) ==
    /\ pc_v' = "exit"
    /\ Failed1(e)
    /\ cn_conns' = cn_conns \ {"conn2", "conn_stats"}
    /\ UNCHANGED <<cn_ctx, cn_wg2, cn_ret, pc_x, pc_s, pc_t, pc_p, cn_retq, cn_got, cn_resp>>
    /\ CnOnly

\* the server connected c and goes to pc
SrvConnected(c, pc) ==
    /\ pc_v' = pc
    /\ cn_conns' = cn_conns \cup {c}
    /\ UNCHANGED <<cn_ctx, cn_wg1, cn_wg2, cn_err, cn_ret, pc_x, pc_s, pc_t, pc_p, cn_retq,
                   cn_got, cn_resp>>
    /\ CnOnly

\* conn2 = amari.connect(ctx, conn.wsuri) of run
VConnect ==
    /\ pc_v = "connect2"
    /\ \E ok \in BOOLEAN :
        IF ok THEN SrvConnected("conn2", "connect_stats") ELSE SrvRaises("ConnError")

\* conn_stats = amari.connect(ctx, conn.wsuri) of _x_stats_srv
VConnectStats ==
    /\ pc_v = "connect_stats"
    /\ \E ok \in BOOLEAN :
        IF ok THEN SrvConnected("conn_stats", "dummy") ELSE SrvRaises("ConnError")

\* the first dummy stats query got its reply: wg.go of the pollers and of
\* Tmain, wg.wait()
VSpawn ==
    /\ pc_v = "dummy"
    /\ pc_v' = "wgwait"
    /\ pc_t' = "send_uq"
    /\ pc_p' = [p \in Pollers |-> "recv"]
    /\ UNCHANGED <<cn_ctx, cn_wg1, cn_wg2, cn_err, cn_ret, pc_x, pc_s, cn_retq, cn_got,
                   cn_resp, cn_conns>>
    /\ CnOnly

\* the first dummy stats query fails, or ctx is done
VDummyFail   == pc_v = "dummy" /\ SrvRaises("ConnError")
VDummyCancel == pc_v = "dummy" /\ Ctx1Done /\ SrvRaises("ctx")

\* wg.wait() of _x_stats_srv: its tasks have ended, it raises their failure
VWaitTasks ==
    /\ pc_v = "wgwait"
    /\ pc_t = "exit" /\ \A p \in Pollers : pc_p[p] = "exit"
    /\ SrvRaises(IF Ctx1Done THEN "ctx" ELSE "ConnError")

\* ---- Tmain

\* Tmain goes on without touching a channel
TmainTo(pc) ==
    /\ pc_t' = pc
    /\ UNCHANGED <<cn_ctx, cn_wg1, cn_wg2, cn_err, cn_ret, pc_x, pc_s, pc_v, pc_p, cn_retq,
                   cn_got, cn_conns>>
    /\ CnOnly

\* rx_all: uq, or sq, is sent to the poller p, which receives it
SentTo(p, pc) ==
    /\ pc_p[p] = "recv"
    /\ pc_p' = [pc_p EXCEPT ![p] = "query"]
    /\ pc_t' = pc
    /\ cn_got' = {}
    /\ UNCHANGED <<cn_ctx, cn_wg1, cn_wg2, cn_err, cn_ret, pc_x, pc_s, pc_v, cn_retq, cn_resp,
                   cn_conns>>
    /\ CnOnly

TSendUq == pc_t = "send_uq" /\ SentTo("ue_get", "send_sq")
TSendSq == pc_t = "send_sq" /\ SentTo("stats", "gather")

\* rx_all: a report is received from uq or sq
TGather ==
    /\ pc_t = "gather"
    /\ \E p \in cn_retq :
        /\ cn_retq' = cn_retq \ {p}
        /\ cn_got' = cn_got \cup {p}
        /\ pc_t' = IF cn_got \cup {p} = Pollers THEN "select" ELSE "gather"
    /\ UNCHANGED <<cn_ctx, cn_wg1, cn_wg2, cn_err, cn_ret, pc_x, pc_s, pc_v, pc_p, cn_resp,
                   cn_conns>>
    /\ CnOnly

\* any select of Tmain and of rx_all: ctx.done()
TCancel ==
    /\ pc_t \in {"send_uq", "send_sq", "gather", "select"}
    /\ Ctx2Done
    /\ pc_t' = "exit"
    /\ cn_wg2' = TRUE
    /\ UNCHANGED <<cn_ctx, cn_wg1, cn_err, cn_ret, pc_x, pc_s, pc_v, pc_p, cn_retq, cn_got,
                   cn_resp, cn_conns>>
    /\ CnOnly

\* the select of the loop receives the request that req_ sends
TSelectReq ==
    /\ pc_t = "select" /\ pc_s = "xsend"
    /\ pc_t' = "reply"
    /\ pc_s' = "xrecv"
    /\ cn_resp' = FALSE
    /\ UNCHANGED <<cn_ctx, cn_wg1, cn_wg2, cn_err, cn_ret, pc_x, pc_v, pc_p, cn_retq, cn_got,
                   cn_conns>>
    /\ CnOnly

\* the select of the loop: default, when nothing else is ready
TSelectDefault == pc_t = "select" /\ ~Ctx2Done /\ pc_s # "xsend" /\ cn_resp' = cn_resp
                  /\ TmainTo("tsleep")

\* respch.send(r), respch being a chan(1)
TReply == pc_t = "reply" /\ cn_resp' = TRUE /\ TmainTo("tsleep")

\* time.sleep(δtsleep), which does not look at ctx and ends by itself
TSleep == pc_t = "tsleep" /\ cn_resp' = cn_resp /\ TmainTo("send_uq")

\* ---- Trx_ue_get and Trx_stats

\* the poller p goes to pc
PollerTo(p, pc) ==
    /\ pc_p' = [pc_p EXCEPT ![p] = pc]
    /\ UNCHANGED <<cn_ctx, cn_wg1, cn_err, cn_ret, pc_x, pc_s, pc_v, pc_t, cn_got, cn_resp,
                   cn_conns>>
    /\ CnOnly

\* conn.req(ctx, ...) of the poller: the reply comes; the connection fails
PQueryReply(p) == pc_p[p] = "query" /\ UNCHANGED <<cn_wg2, cn_retq>> /\ PollerTo(p, "send")
PQueryFail(p)  == pc_p[p] = "query" /\ cn_wg2' = TRUE /\ UNCHANGED cn_retq /\ PollerTo(p, "exit")

\* retq.send(report), retq being a chan(1)
PSend(p) == pc_p[p] = "send" /\ cn_retq' = cn_retq \cup {p} /\ UNCHANGED cn_wg2
            /\ PollerTo(p, "recv")

\* the select of the poller, or its conn.req: ctx.done()
PCancel(p) ==
    /\ pc_p[p] \in {"recv", "query"}
    /\ Ctx2Done
    /\ cn_wg2' = TRUE /\ UNCHANGED cn_retq
    /\ PollerTo(p, "exit")

XlogSteps  == XConnect \/ XWaitTasks \/ XReconnectTimer \/ XReconnectCancel
SchedSteps == \/ SPickAhead \/ SPickDue \/ SSleepTimer \/ SSleepCancel
              \/ SFireSync \/ SFireReq \/ SFireXReq
              \/ SReqReply \/ SReqFail \/ SReqCancel \/ SXReqCancel \/ SXReqReply
SrvSteps   == VConnect \/ VConnectStats \/ VSpawn \/ VDummyFail \/ VDummyCancel \/ VWaitTasks
TmainSteps == \/ TSendUq \/ TSendSq \/ TGather \/ TCancel \/ TSelectReq \/ TSelectDefault
              \/ TReply \/ TSleep
PollerSteps(p) == PQueryReply(p) \/ PQueryFail(p) \/ PSend(p) \/ PCancel(p)

CnNext ==
    \/ CnCancel \/ XlogSteps \/ SchedSteps \/ SrvSteps \/ TmainSteps
    \/ \E p \in Pollers : PollerSteps(p)

SpecCancelInit ==
    /\ CnInit
    /\ ConnIdle /\ NormIdle /\ XlIdle /\ ReaderIdle /\ FileIdle /\ RRIdle
    /\ SamplerIdle /\ BitSyncIdle /\ KpiIdle /\ LmIdle /\ TmIdle
SpecCancel == SpecCancelInit /\ [][CnNext]_vars

\* the scheduling: every task that can go on does go on; a select for which
\* ctx.done() is ready again and again ends up taking it; and the schedule of
\* _xlog1 gets ahead of the clock again and again
CnFairness ==
    /\ WF_vars(XlogSteps) /\ WF_vars(SchedSteps) /\ WF_vars(SrvSteps) /\ WF_vars(TmainSteps)
    /\ \A p \in Pollers : WF_vars(PollerSteps(p)) /\ SF_vars(PCancel(p))
    /\ SF_vars(XReconnectCancel)
    /\ SF_vars(SPickAhead) /\ SF_vars(SSleepCancel) /\ SF_vars(SReqCancel)
    /\ SF_vars(SXReqCancel)
    /\ SF_vars(VDummyCancel)
    /\ SF_vars(TCancel)

SpecCancelLive == SpecCancel /\ CnFairness


\* every task that xlog spawned has ended and every connection is closed
TasksEnded ==
    /\ pc_s \in {"none", "exit"} /\ pc_v \in {"none", "exit"} /\ pc_t \in {"none", "exit"}
    /\ \A p \in Pollers : pc_p[p] \in {"none", "exit"}
    /\ cn_conns = {}

\* xlog has returned, raising an error, with nothing left behind
Terminated == pc_x = "end" /\ cn_ret # "" /\ TasksEnded

\* C38 (as amended): once ctx is cancelled xlog terminates, wherever it and
\* its tasks were waiting: the scheduler loop, the sub-server, its Tmain and
\* its pollers all exit, the connections are closed, and xlog returns
\* raising an error.
C38_CancelledTerminates == cn_ctx ~> Terminated

\* C38 (as stated): ... and the error xlog returns with is the cancellation
\* error.
C38_CancelledReturnsCtxErr == cn_ctx ~> (Terminated /\ cn_ret = "ctx")

\* ctx was cancelled while the sub-server, Tmain and both pollers were
\* running; all of them have ended and xlog has returned with ctx.err()
C38_Witness ==
    /\ cn_ctx /\ Terminated /\ cn_ret = "ctx"
    /\ pc_v = "exit" /\ pc_t = "exit" /\ \A p \in Pollers : pc_p[p] = "exit"
=============================================================================
